---- MODULE Spec2Model ----
(***************************************************************************)
(* Model of the glouton agent's in-process data plane:                     *)
(*   - threshold / soft-status evaluator  (src/threshold/threshold.go)     *)
(*   - check runner                       (agentgo/check/base.go)          *)
(*   - task registry                      (package task)                   *)
(* Time is counted in seconds.  The zero time.Time{} is 0, every real      *)
(* clock reading is >= 1.                                                  *)
(***************************************************************************)
EXTENDS Integers, Sequences, FiniteSets, TLC

VARIABLES
    now,                \* wall clock read by time.Now()
    states,             \* Registry.states: map[MetricNameItem]statusState
    thresholds,         \* Registry.thresholds: map[MetricNameItem]Threshold
    thresholdsAllItem,  \* Registry.thresholdsAllItem: map[string]Threshold
    defaultSoftPeriod,  \* Registry.defaultSoftPeriod
    softPeriods,        \* Registry.softPeriods: map[string]time.Duration
    lastInput,          \* the batch given to the last pusher.PushPoints
    downstream,         \* the batch the last PushPoints forwarded to p.pusher
    obs,                \* per key: what the last points of the key were (observer)
    \* Registry.Run (threshold) and its state store
    runPc,              \* where Registry.Run is: "head", "select" or "done"
    runCtxDone,         \* the ctx given to Registry.Run is cancelled
    timerFired,         \* the time.After(time.Minute) of the select has fired
    lastSave,           \* Run's local lastSave
    save,               \* Run's local save, as of the last iteration
    stateData,          \* State.data: what the state store holds per key
    stateSets,          \* number of State.Set calls received
    \* baseCheck (check runner)
    checkPc,            \* where baseCheck.Run is: "select", "trigger", "probe",
                        \* "wait", "stopping" or "done"
    checkCtxDone,       \* the ctx given to baseCheck.Run is cancelled
    runResult,          \* the local result of baseCheck.Run: the previous status
    probe,              \* what doCheck returned in the check in progress
    timer,              \* bc.timer: [state, d]
    cancel,             \* bc.cancel != nil
    conns,              \* per TCP address, the goroutines started by openSockets
    persistentConnection, \* bc.persistentConnection
    acc,                \* the statuses given to bc.acc.AddFieldsWithStatus
    \* task.Registry
    regCtxDone,         \* r.ctx is cancelled
    tasks,              \* r.tasks: id -> task (index in taskRuns)
    taskCancelFuncs,    \* r.taskCancelFuncs: id -> the task its function cancels
    taskRuns,           \* the tasks given to AddTask, in order, with the state
                        \* of their context and of their Run
    regOp,              \* the call that holds r.l and the step it is at;
                        \* when none holds it, how the last one ended
    closeRemoved,        \* number of tasks removed by calls of Registry.Close
    \* discovery.Discovery
    servicesMap,        \* d.servicesMap: key -> Service
    lastDiscoveryUpdate,\* d.lastDiscoveryUpdate
    lastConfigservicesMap,\* d.lastConfigservicesMap
    activeInput,        \* the keys of d.activeInput
    activeCheck,        \* the keys of d.activeCheck
    configCalls,        \* number of AddInput, RemoveInput, AddTask and RemoveTask calls made
    discLock,           \* the caller that holds d.l, 0 when it is free
    disc,               \* per caller: where it is in Discovery or RemoveIfNonRunning
    lastOp,             \* observer: the last step of a caller
    netstatSeen,         \* observer: per key, the last endpoints seen with netstat
    \* prometheus registry.Registry
    promNow,            \* time.Now() for the registry, in tenths of a second
    pushedPoints,       \* r.pushedPoints: key -> point
    pushedPointsExpiration,\* r.pushedPointsExpiration: key -> time
    lastPushedPointsCleanup,\* r.lastPushedPointsCleanup
    gathered,           \* the metrics the last pushCollector.Collect sent, and its rank
    pushLog,            \* observer: per key, the last push
    currentDelay,       \* r.currentDelay, in seconds
    updateDelayC,       \* r.updateDelayC: nil, or an unbuffered channel
    collPc,             \* where RunCollection is
    collCtxDone,        \* the ctx given to RunCollection is cancelled
    tickerDelay,        \* the local currentDelay of Registry.run
    updaters,                 \* per caller of UpdateDelay: where it is, and the delay it gave
    \* synchronizer.Synchronizer and bleemeo.Connector
    syncNow,            \* time.Now() of the synchronizer, in seconds
    syncPc,             \* position of Synchronizer.Run
    syncCtxDone,        \* s.ctx is cancelled
    disabledUntil,      \* Synchronizer.disabledUntil
    disableReason,      \* Synchronizer.disableReason
    successiveErrors,   \* Synchronizer.successiveErrors
    minimalDelay,       \* minimalDelay of Run
    minimalDeadline,    \* minimalDeadline of WaitDeadline
    syncMethods,        \* syncMethods of runOnce: name -> full
    stepIdx,            \* index of runOnce's loop in syncStep
    lastErr,            \* lastErr of runOnce, the error runOnce returns
    executed,           \* the step methods called by the current iteration, in order
    gateReads,          \* the clock and the deadline the current iteration read at the gate, in order
    factsByKey,         \* Cache.FactsByKey()
    dupUntil,           \* until of checkDuplicated
    connector,          \* Connector.disabledUntil, disableReason and l
    lastDisable,        \* the call of disable made by the last step, if any
    lastCallback,        \* the call of DisableCallback made by the last step, if any
    \* Synchronizer.syncToPerform on its own
    selection,           \* the last call of syncToPerform: what it read and what it returned
    \* state.State and Synchronizer.register
    stData,             \* State.data: key -> value
    stFiles,            \* the files at State.path and at State.path + .tmp
    stLock,             \* who holds State.l
    stCallers,          \* per caller of State: where it is in Save, Set or Delete
    regPc,              \* position of Synchronizer.register
    agentID,            \* Synchronizer.agentID
    posted,             \* the registration POST was sent
    regSaved,            \* observer: a save made for register replaced the state file
    \* facts.NetstatProvider
    netstat,            \* the map of Netstat: pid -> addresses
    netstatLive,        \* decodeNetstatFile has returned, the live connections are being added
    candidates,          \* observer: per pid, the addresses given to addAddress
    \* registry.labeledGatherer
    labeled,             \* the last gather of a labeledGatherer: sample labels, extra labels, labels returned
    \* registry.Gatherers
    gsPc,               \* where GatherWithState is: idle, gathering, returned
    gsDone,             \* the gatherers whose goroutine called wg.Done
    mfs,                \* the families appended under the mutex
    errs,               \* the errors collected
    sortedResult,        \* the families returned
    \* facts.ProcessProvider
    processes,          \* pp.processes: pid -> Process, NoProcess for a pid not in the map
    lastUpdate,          \* the last updateProcesses: the merged map before the cgroup step, the cgroup data, the time of the age test, the error
    \* threshold.statusState on its own
    updated,             \* the last call of statusState.Update: the state it was called on, its arguments and the state returned
    \* threshold.pusher called from several goroutines
    regL,               \* who holds Registry.l: 0 for nobody, or the goroutine
    pusher,             \* each goroutine in pusher.PushPoints: pc, number of the call, points, index in the loop, result
    pushCalls,          \* the number of calls of PushPoints
    lockOrder,          \* the calls in the order they locked Registry.l
    applied,            \* the updates of Registry.states in order: key, call, index of the point
    sinkCalls,           \* the calls of the downstream PushPoints: the call, whether the caller held Registry.l
    \* blackbox.RegisterManager
    targets,            \* m.targets: the list of collectorWithLabels
    scraperName,        \* m.scraperName
    lastUpdateTargets,   \* the last UpdateDynamicTargets: its monitors, the list before it, its error
    \* tasks calling the registry from their Run
    inCall,              \* the tasks whose Run is inside a call of the registry, at r.l.Lock()
    \* threshold.New on a restart
    lastNew,             \* the last threshold.New: what Get gave, its error, the states of the Registry returned, the number of calls
    \* the forced requests of the Synchronizer
    forceSyncMap,       \* s.forceSync: step -> full
    pendingMetricsUpdate,\* s.pendingMetricsUpdate
    fullRequested,      \* observer: the steps whose full sync was requested since the last syncToPerform
    taken,               \* observer: the requests the last syncToPerform removed from s.forceSync
    \* the MQTT clients of bleemeo.Connector
    connPc,             \* where Connector.Run is: Run, returned
    connCtxDone,        \* subCtx of Connector.Run is cancelled
    mqttRestart,        \* c.mqttRestart: the requests it holds, whether it is closed (and nil)
    restarter,          \* mqttRestarter: its position and its current subCtx
    subCtxs,            \* the subCtx of mqttRestarter in order: whether its cancel was called
    mqtt,               \* c.mqtt: 0 for nil, or the number of the client
    clientRuns          \* the goroutines of lines 231-243: position, client whose Run is called, its context

configVars == <<thresholds, thresholdsAllItem, defaultSoftPeriod, softPeriods>>
pushVars == <<lastInput, downstream, obs>>
thresholdVars == <<states, configVars, pushVars>>
runVars == <<runPc, runCtxDone, timerFired, lastSave, save, stateData, stateSets>>

checkVars == <<checkPc, checkCtxDone, runResult, probe, timer, cancel, conns,
               persistentConnection, acc>>

taskVars == <<regCtxDone, tasks, taskCancelFuncs, taskRuns, regOp, closeRemoved>>

discoveryVars == <<servicesMap, lastDiscoveryUpdate, lastConfigservicesMap, activeInput, activeCheck, configCalls, discLock, disc, lastOp, netstatSeen>>

promVars == <<promNow, pushedPoints, pushedPointsExpiration, lastPushedPointsCleanup, gathered, pushLog, currentDelay, updateDelayC, collPc, collCtxDone, tickerDelay, updaters>>

syncVars == <<syncNow, syncPc, syncCtxDone, disabledUntil, disableReason, successiveErrors, minimalDelay, minimalDeadline, syncMethods, stepIdx, lastErr, executed, gateReads, factsByKey, dupUntil, connector, lastDisable, lastCallback>>

selectVars == <<selection>>

storeVars == <<stData, stFiles, stLock, stCallers, regPc, agentID, posted, regSaved>>

netstatVars == <<netstat, netstatLive, candidates>>

labeledVars == <<labeled>>

gatherersVars == <<gsPc, gsDone, mfs, errs, sortedResult>>

processVars == <<processes, lastUpdate>>

updatedVars == <<updated>>

pusherVars == <<regL, pusher, pushCalls, lockOrder, applied, sinkCalls>>

blackboxVars == <<targets, scraperName, lastUpdateTargets>>

taskCallVars == <<inCall>>

restartVars == <<lastNew>>

forceVars == <<forceSyncMap, pendingMetricsUpdate, fullRequested, taken>>

mqttVars == <<connPc, connCtxDone, mqttRestart, restarter, subCtxs, mqtt, clientRuns>>

\* what the operations of the threshold registry leave alone
outsideThreshold == <<checkVars, taskVars, discoveryVars, promVars, syncVars, selectVars, storeVars, netstatVars, labeledVars, gatherersVars, processVars, updatedVars, pusherVars, blackboxVars, taskCallVars, restartVars, forceVars, mqttVars>>
\* what pusher.PushPoints leaves alone apart from the threshold registry
outsidePushing == <<checkVars, taskVars, discoveryVars, promVars, syncVars, selectVars, storeVars, netstatVars, labeledVars, gatherersVars, processVars, updatedVars, blackboxVars, taskCallVars, restartVars, forceVars, mqttVars>>
\* what the operations of a check leave alone
outsideCheck == <<now, thresholdVars, runVars, taskVars, discoveryVars, promVars, syncVars, selectVars, storeVars, netstatVars, labeledVars, gatherersVars, processVars, updatedVars, pusherVars, blackboxVars, taskCallVars, restartVars, forceVars, mqttVars>>
\* what the operations of the task registry leave alone
outsideTask == <<now, thresholdVars, runVars, checkVars, discoveryVars, promVars, syncVars, selectVars, storeVars, netstatVars, labeledVars, gatherersVars, processVars, updatedVars, pusherVars, blackboxVars, taskCallVars, restartVars, forceVars, mqttVars>>
\* what the operations of discovery.Discovery leave alone
outsideDiscovery == <<now, thresholdVars, runVars, checkVars, taskVars, promVars, syncVars, selectVars, storeVars, netstatVars, labeledVars, gatherersVars, processVars, updatedVars, pusherVars, blackboxVars, taskCallVars, restartVars, forceVars, mqttVars>>
\* what the operations of prometheus registry.Registry leave alone
outsideProm == <<now, thresholdVars, runVars, checkVars, taskVars, discoveryVars, syncVars, selectVars, storeVars, netstatVars, labeledVars, gatherersVars, processVars, updatedVars, pusherVars, blackboxVars, taskCallVars, restartVars, forceVars, mqttVars>>
\* what the operations of synchronizer.Synchronizer and bleemeo.Connector leave alone
outsideSync == <<now, thresholdVars, runVars, checkVars, taskVars, discoveryVars, promVars, selectVars, storeVars, netstatVars, labeledVars, gatherersVars, processVars, updatedVars, pusherVars, blackboxVars, taskCallVars, restartVars, forceVars, mqttVars>>
\* what the operations of Synchronizer.syncToPerform on its own leave alone
outsideSelect == <<now, thresholdVars, runVars, checkVars, taskVars, discoveryVars, promVars, syncVars, storeVars, netstatVars, labeledVars, gatherersVars, processVars, updatedVars, pusherVars, blackboxVars, taskCallVars, restartVars, forceVars, mqttVars>>
\* what the operations of state.State and Synchronizer.register leave alone
outsideStore == <<now, thresholdVars, runVars, checkVars, taskVars, discoveryVars, promVars, syncVars, selectVars, netstatVars, labeledVars, gatherersVars, processVars, updatedVars, pusherVars, blackboxVars, taskCallVars, restartVars, forceVars, mqttVars>>
\* what the operations of facts.NetstatProvider leave alone
outsideNetstat == <<now, thresholdVars, runVars, checkVars, taskVars, discoveryVars, promVars, syncVars, selectVars, storeVars, labeledVars, gatherersVars, processVars, updatedVars, pusherVars, blackboxVars, taskCallVars, restartVars, forceVars, mqttVars>>
\* what the operations of registry.labeledGatherer leave alone
outsideLabeled == <<now, thresholdVars, runVars, checkVars, taskVars, discoveryVars, promVars, syncVars, selectVars, storeVars, netstatVars, gatherersVars, processVars, updatedVars, pusherVars, blackboxVars, taskCallVars, restartVars, forceVars, mqttVars>>
\* what the operations of registry.Gatherers leave alone
outsideGatherers == <<now, thresholdVars, runVars, checkVars, taskVars, discoveryVars, promVars, syncVars, selectVars, storeVars, netstatVars, labeledVars, processVars, updatedVars, pusherVars, blackboxVars, taskCallVars, restartVars, forceVars, mqttVars>>
\* what the operations of facts.ProcessProvider leave alone
outsideProcess == <<now, thresholdVars, runVars, checkVars, taskVars, discoveryVars, promVars, syncVars, selectVars, storeVars, netstatVars, labeledVars, gatherersVars, updatedVars, pusherVars, blackboxVars, taskCallVars, restartVars, forceVars, mqttVars>>
\* what the operations of threshold.statusState on its own leave alone
outsideUpdated == <<now, thresholdVars, runVars, checkVars, taskVars, discoveryVars, promVars, syncVars, selectVars, storeVars, netstatVars, labeledVars, gatherersVars, processVars, pusherVars, blackboxVars, taskCallVars, restartVars, forceVars, mqttVars>>
\* what the operations of threshold.pusher called from several goroutines leave alone
outsidePusher == <<now, thresholdVars, runVars, checkVars, taskVars, discoveryVars, promVars, syncVars, selectVars, storeVars, netstatVars, labeledVars, gatherersVars, processVars, updatedVars, blackboxVars, taskCallVars, restartVars, forceVars, mqttVars>>
\* what the operations of blackbox.RegisterManager leave alone
outsideBlackbox == <<now, thresholdVars, runVars, checkVars, taskVars, discoveryVars, promVars, syncVars, selectVars, storeVars, netstatVars, labeledVars, gatherersVars, processVars, updatedVars, pusherVars, taskCallVars, restartVars, forceVars, mqttVars>>
\* what a call of the registry from the Run of a task leaves alone
outsideTaskAndCall == <<now, thresholdVars, runVars, checkVars, discoveryVars, promVars, syncVars, selectVars, storeVars, netstatVars, labeledVars, gatherersVars, processVars, updatedVars, pusherVars, blackboxVars, restartVars, forceVars, mqttVars>>
\* what the operations of tasks calling the registry from their Run leave alone
outsideTaskCall == <<now, thresholdVars, runVars, checkVars, taskVars, discoveryVars, promVars, syncVars, selectVars, storeVars, netstatVars, labeledVars, gatherersVars, processVars, updatedVars, pusherVars, blackboxVars, restartVars, forceVars, mqttVars>>
\* what threshold.New leaves alone besides the threshold registry
outsideThresholdNew == <<checkVars, taskVars, discoveryVars, promVars, syncVars, selectVars, storeVars, netstatVars, labeledVars, gatherersVars, processVars, updatedVars, pusherVars, blackboxVars, taskCallVars, forceVars, mqttVars>>
\* what the operations of threshold.New on a restart leave alone
outsideRestart == <<now, thresholdVars, runVars, checkVars, taskVars, discoveryVars, promVars, syncVars, selectVars, storeVars, netstatVars, labeledVars, gatherersVars, processVars, updatedVars, pusherVars, blackboxVars, taskCallVars, forceVars, mqttVars>>
\* what an iteration of the Synchronizer leaves alone besides its forced requests
outsideSyncAndForce == <<now, thresholdVars, runVars, checkVars, taskVars, discoveryVars, promVars, selectVars, storeVars, netstatVars, labeledVars, gatherersVars, processVars, updatedVars, pusherVars, blackboxVars, taskCallVars, restartVars, mqttVars>>
\* what the operations of the forced requests of the Synchronizer leave alone
outsideForce == <<now, thresholdVars, runVars, checkVars, taskVars, discoveryVars, promVars, syncVars, selectVars, storeVars, netstatVars, labeledVars, gatherersVars, processVars, updatedVars, pusherVars, blackboxVars, taskCallVars, restartVars, mqttVars>>
\* what the operations of the MQTT clients of bleemeo.Connector leave alone
outsideMqtt == <<now, thresholdVars, runVars, checkVars, taskVars, discoveryVars, promVars, syncVars, selectVars, storeVars, netstatVars, labeledVars, gatherersVars, processVars, updatedVars, pusherVars, blackboxVars, taskCallVars, restartVars, forceVars>>

vars == <<now, thresholdVars, runVars, checkVars, taskVars, discoveryVars, promVars, syncVars, selectVars, storeVars, netstatVars, labeledVars, gatherersVars, processVars, updatedVars, pusherVars, blackboxVars, taskCallVars, restartVars, forceVars, mqttVars>>

-----------------------------------------------------------------------------
(* types.Status *)

StatusUnset    == "unset"
StatusOk       == "ok"
StatusWarning  == "warning"
StatusCritical == "critical"

\* Status.IsSet
IsSet(status) == status # StatusUnset

\* Status.NagiosCode
NagiosCode(status) ==
    IF status = StatusOk THEN 0
    ELSE IF status = StatusWarning THEN 1
    ELSE IF status = StatusCritical THEN 2
    ELSE 3

-----------------------------------------------------------------------------
(* Bounds and input sets *)

\* the clock never goes beyond MaxClock in the soft-status runs
MaxClock == 311

\* the clock never goes beyond MaxRunClock in the runs of Registry.Run, and
\* points arrive until MaxPushClock
MaxRunClock == 3800
MaxPushClock == 61

\* metric names (label __name__) and items of the points sent to the pusher
Names == {"cpu", "mem"}
Items == {""}

\* MetricNameItem
MetricNameItem(name, item) == <<name, item>>
Keys == {MetricNameItem(n, i) : n \in Names, i \in Items}

\* the key of the states in the state store
statusCacheKey == "CacheStatusState"

\* 60*time.Minute, the age of lines 343 and 364, in seconds
SaveInterval == 3600

\* time.Minute of line 340, in seconds
RunTick == 60

\* math.NaN(): the "unset" limit of a Threshold
NaN == -1000000

\* Threshold
Threshold(lc, lw, hw, hc) ==
    [LowCritical |-> lc, LowWarning |-> lw, HighWarning |-> hw, HighCritical |-> hc]

\* Threshold.IsZero
IsZero(t) ==
    \/ t.LowCritical = NaN /\ t.LowWarning = NaN /\ t.HighWarning = NaN /\ t.HighCritical = NaN
    \/ t.LowCritical = 0 /\ t.LowWarning = 0 /\ t.HighWarning = 0 /\ t.HighCritical = 0

\* Threshold.CurrentStatus: the raw status of a value and the exceeded limit
CurrentStatus(t, value) ==
    IF t.LowCritical # NaN /\ value < t.LowCritical THEN <<StatusCritical, t.LowCritical>>
    ELSE IF t.LowWarning # NaN /\ value < t.LowWarning THEN <<StatusWarning, t.LowWarning>>
    ELSE IF t.HighCritical # NaN /\ value > t.HighCritical THEN <<StatusCritical, t.HighCritical>>
    ELSE IF t.HighWarning # NaN /\ value > t.HighWarning THEN <<StatusWarning, t.HighWarning>>
    ELSE <<StatusOk, NaN>>

\* the zero value of Threshold{} (what a missing map entry reads as)
ZeroThreshold == Threshold(0, 0, 0, 0)

\* the all-NaN threshold getThreshold returns when nothing is configured
UnsetThreshold == Threshold(NaN, NaN, NaN, NaN)

\* Registry.getThreshold
getThreshold(thr, thrAll, key) ==
    IF key \in DOMAIN thr THEN thr[key]
    ELSE LET v == IF key[1] \in DOMAIN thrAll THEN thrAll[key[1]] ELSE ZeroThreshold
         IN  IF IsZero(v) THEN UnsetThreshold ELSE v

-----------------------------------------------------------------------------
(* statusState *)

statusState(cur, crit, warn, upd) ==
    [CurrentStatus |-> cur, CriticalSince |-> crit, WarningSince |-> warn, LastUpdate |-> upd]

\* the zero statusState{} a missing key of Registry.states reads as
ZeroState == statusState(StatusUnset, 0, 0, 0)

\* Decide with the period compared strictly
DecideStrict(cur, newStatus, period, criticalDuration, warningDuration) ==
    IF period = 0 THEN newStatus
    ELSE IF criticalDuration > period THEN StatusCritical
    ELSE IF warningDuration > period THEN StatusWarning
    ELSE IF cur = StatusCritical /\ newStatus = StatusWarning THEN StatusWarning
    ELSE IF newStatus = StatusOk THEN StatusOk
    ELSE cur

\* Decide without the downgrade from critical to warning
DecideNoDowngrade(cur, newStatus, period, criticalDuration, warningDuration) ==
    IF period = 0 THEN newStatus
    ELSE IF criticalDuration >= period THEN StatusCritical
    ELSE IF warningDuration >= period THEN StatusWarning
    ELSE IF newStatus = StatusOk THEN StatusOk
    ELSE cur

\* the decision switch of statusState.Update (lines 166-179)
Decide(cur, newStatus, period, criticalDuration, warningDuration) ==
    IF period = 0 THEN newStatus
    ELSE IF criticalDuration >= period THEN StatusCritical
    ELSE IF warningDuration >= period THEN StatusWarning
    ELSE IF cur = StatusCritical /\ newStatus = StatusWarning THEN StatusWarning
    ELSE IF newStatus = StatusOk THEN StatusOk
    ELSE cur

\* Update that leaves an unset CurrentStatus at ok instead of adopting newStatus
UpdateNoAdopt(s, newStatus, period, t) ==
    LET cur0  == IF s.CurrentStatus = StatusUnset THEN StatusOk ELSE s.CurrentStatus
        crit0 == IF s.CriticalSince > t THEN 0 ELSE s.CriticalSince
        warn0 == IF s.WarningSince > t THEN 0 ELSE s.WarningSince
        crit1 == IF newStatus = StatusCritical
                 THEN (IF crit0 = 0 THEN t ELSE crit0)
                 ELSE 0
        warn1 == IF newStatus \in {StatusCritical, StatusWarning}
                 THEN (IF warn0 = 0 THEN t ELSE warn0)
                 ELSE 0
    IN  statusState(Decide(cur0, newStatus, period,
                           IF newStatus = StatusCritical THEN t - crit1 ELSE 0,
                           IF newStatus \in {StatusCritical, StatusWarning}
                           THEN t - warn1 ELSE 0),
                    crit1, warn1, t)

\* Update that starts WarningSince on a raw warning only
UpdateNoWarningSince(s, newStatus, period, t) ==
    LET cur0  == IF s.CurrentStatus = StatusUnset THEN newStatus ELSE s.CurrentStatus
        crit0 == IF s.CriticalSince > t THEN 0 ELSE s.CriticalSince
        warn0 == IF s.WarningSince > t THEN 0 ELSE s.WarningSince
        crit1 == IF newStatus = StatusCritical
                 THEN (IF crit0 = 0 THEN t ELSE crit0)
                 ELSE 0
        warn1 == IF newStatus = StatusWarning
                 THEN (IF warn0 = 0 THEN t ELSE warn0)
                 ELSE IF newStatus = StatusCritical THEN warn0 ELSE 0
    IN  statusState(Decide(cur0, newStatus, period,
                           IF newStatus = StatusCritical THEN t - crit1 ELSE 0,
                           IF newStatus = StatusWarning THEN t - warn1 ELSE 0),
                    crit1, warn1, t)

\* statusState.Update(newStatus, period, now); time.Now() of line 181 is t too
Update(s, newStatus, period, t) ==
    LET cur0  == IF s.CurrentStatus = StatusUnset THEN newStatus ELSE s.CurrentStatus
        crit0 == IF s.CriticalSince > t THEN 0 ELSE s.CriticalSince
        warn0 == IF s.WarningSince > t THEN 0 ELSE s.WarningSince
        crit1 == IF newStatus = StatusCritical
                 THEN (IF crit0 = 0 THEN t ELSE crit0)
                 ELSE 0
        warn1 == IF newStatus \in {StatusCritical, StatusWarning}
                 THEN (IF warn0 = 0 THEN t ELSE warn0)
                 ELSE 0
        criticalDuration == IF newStatus = StatusCritical THEN t - crit1 ELSE 0
        warningDuration  == IF newStatus \in {StatusCritical, StatusWarning}
                            THEN t - warn1 ELSE 0
    IN  statusState(Decide(cur0, newStatus, period, criticalDuration, warningDuration),
                    crit1, warn1, t)

-----------------------------------------------------------------------------
(* types.MetricPoint and pusher.PushPoints *)

\* types.MetricPoint: Labels[__name__], Annotations.BleemeoItem, Point.Value,
\* Point.Time, Annotations.Status (CurrentStatus, StatusDescription),
\* Annotations.StatusOf
MetricPoint(name, item, value, time, status, desc, statusOf) ==
    [name |-> name, item |-> item, value |-> value, time |-> time,
     status |-> status, desc |-> desc, statusOf |-> statusOf]

\* the text built at lines 488-503, kept as the tuple of what it prints:
\* the value, and when the status is not ok the exceeded limit and (when
\* period > 0) the period
statusDescription(value, cur, thresholdLimit, period) ==
    IF cur = StatusOk THEN <<value>>
    ELSE IF period > 0 THEN <<value, thresholdLimit, period>>
    ELSE <<value, thresholdLimit>>

\* the soft period used for a key (lines 477-481)
periodOf(dflt, perName, key) ==
    IF key[1] \in DOMAIN perName THEN perName[key[1]] ELSE dflt

\* the state read at line 476: a missing key reads as the zero statusState
stateOf(st, key) == IF key \in DOMAIN st THEN st[key] ELSE ZeroState

\* map assignment m[key] = value
MapSet(m, key, value) ==
    [k \in DOMAIN m \cup {key} |-> IF k = key THEN value ELSE m[k]]

\* addPointWithThreshold that stamps the status point with time.Now()
addPointWithThresholdNow(st, points, point, threshold, key, period, t) ==
    LET soft     == CurrentStatus(threshold, point.value)
        newState == Update(stateOf(st, key), soft[1], period, t)
        desc     == statusDescription(point.value, newState.CurrentStatus, soft[2], period)
        enriched == [point EXCEPT !.status = newState.CurrentStatus, !.desc = desc]
        statusPt == MetricPoint(point.name \o "_status", point.item,
                                NagiosCode(newState.CurrentStatus), t,
                                newState.CurrentStatus, desc, point.name)
    IN  [states |-> MapSet(st, key, newState),
         points |-> Append(Append(points, enriched), statusPt)]

\* pusher.addPointWithThreshold: the new states map and the extended result
addPointWithThreshold(st, points, point, threshold, key, period, t) ==
    LET soft     == CurrentStatus(threshold, point.value)
        newState == Update(stateOf(st, key), soft[1], period, t)
        desc     == statusDescription(point.value, newState.CurrentStatus, soft[2], period)
        enriched == [point EXCEPT !.status = newState.CurrentStatus, !.desc = desc]
        statusPt == MetricPoint(point.name \o "_status", point.item,
                                NagiosCode(newState.CurrentStatus), point.time,
                                newState.CurrentStatus, desc, point.name)
    IN  [states |-> MapSet(st, key, newState),
         points |-> Append(Append(points, enriched), statusPt)]

\* the loop of pusher.PushPoints (lines 453-468) from point i on; every point
\* of the batch reads the clock as t
RECURSIVE pushLoop(_, _, _, _, _, _, _, _, _)
pushLoop(points, i, st, result, thr, thrAll, dflt, perName, t) ==
    IF i > Len(points) THEN [states |-> st, points |-> result]
    ELSE LET point     == points[i]
             key       == MetricNameItem(point.name, point.item)
             threshold == getThreshold(thr, thrAll, key)
         IN  IF ~IsSet(point.status) /\ ~IsZero(threshold)
             THEN LET r == addPointWithThreshold(st, result, point, threshold, key,
                                                 periodOf(dflt, perName, key), t)
                  IN  pushLoop(points, i + 1, r.states, r.points, thr, thrAll, dflt, perName, t)
             ELSE pushLoop(points, i + 1, st, Append(result, point), thr, thrAll, dflt, perName, t)

-----------------------------------------------------------------------------
(* Observer of the points of one key: the last two points and the current  *)
(* run of raw-critical points.  It records what addPointWithThreshold did  *)
(* (lines 475-484) and changes nothing of the registry.                    *)

NoObs ==
    [raw |-> "none", emitted |-> "none", period |-> 0, t |-> 0, fresh |-> FALSE,
     praw |-> "none", pemitted |-> "none", pperiod |-> 0, pfresh |-> FALSE,
     runStart |-> 0, runValid |-> FALSE, runWarn |-> FALSE, ex |-> 0, exT0 |-> 0]

\* progress through the stream [ok, critical, critical, critical] at times
\* [T, T, T + 150, T + 310] with period 300
exampleStep(o, raw, period, t) ==
    IF period # 300 THEN <<0, 0>>
    ELSE IF raw = StatusOk THEN <<1, t>>
    ELSE IF raw = StatusCritical /\ o.ex = 1 /\ t = o.exT0 THEN <<2, o.exT0>>
    ELSE IF raw = StatusCritical /\ o.ex = 2 /\ t = o.exT0 + 150 THEN <<3, o.exT0>>
    ELSE IF raw = StatusCritical /\ o.ex = 3 /\ t = o.exT0 + 310 THEN <<4, o.exT0>>
    ELSE <<0, 0>>

\* o after a point of raw status `raw` was evaluated at time t with `period`,
\* the stored state being `before` (hadState: the key was in the map) and
\* becoming `after`
observePoint(o, hadState, before, raw, period, t, after) ==
    LET continues == raw = StatusCritical /\ o.raw = StatusCritical /\ hadState
        ex        == exampleStep(o, raw, period, t)
    IN  [raw |-> raw, emitted |-> after.CurrentStatus, period |-> period, t |-> t,
         fresh |-> ~hadState,
         praw |-> o.raw, pemitted |-> o.emitted, pperiod |-> o.period, pfresh |-> o.fresh,
         runStart |-> IF raw # StatusCritical THEN 0
                      ELSE IF continues THEN o.runStart ELSE t,
         runValid |-> IF raw # StatusCritical THEN FALSE
                      ELSE IF continues THEN o.runValid /\ period = o.period /\ t >= o.t
                      ELSE before.CurrentStatus = StatusOk /\ period > 0,
         runWarn  |-> IF raw # StatusCritical THEN FALSE
                      ELSE IF continues THEN o.runWarn
                      ELSE before.WarningSince # 0,
         ex |-> ex[1], exT0 |-> ex[2]]

\* the observer along the loop of PushPoints
RECURSIVE observeLoop(_, _, _, _, _, _, _, _, _)
observeLoop(points, i, st, o, thr, thrAll, dflt, perName, t) ==
    IF i > Len(points) THEN o
    ELSE LET point     == points[i]
             key       == MetricNameItem(point.name, point.item)
             threshold == getThreshold(thr, thrAll, key)
             period    == periodOf(dflt, perName, key)
         IN  IF ~IsSet(point.status) /\ ~IsZero(threshold)
             THEN LET r  == addPointWithThreshold(st, <<>>, point, threshold, key, period, t)
                      o1 == observePoint(o[key], key \in DOMAIN st, stateOf(st, key),
                                         CurrentStatus(threshold, point.value)[1],
                                         period, t, r.states[key])
                  IN  observeLoop(points, i + 1, r.states, [o EXCEPT ![key] = o1],
                                  thr, thrAll, dflt, perName, t)
             ELSE observeLoop(points, i + 1, st, o, thr, thrAll, dflt, perName, t)

-----------------------------------------------------------------------------
(* Operations of the threshold registry *)

\* pusher.PushPoints(points)
PushPoints(points) ==
    LET r == pushLoop(points, 1, states, <<>>, thresholds, thresholdsAllItem,
                      defaultSoftPeriod, softPeriods, now)
    IN  /\ states' = r.states
        /\ downstream' = r.points
        /\ lastInput' = points
        /\ obs' = observeLoop(points, 1, states, obs, thresholds, thresholdsAllItem,
                              defaultSoftPeriod, softPeriods, now)
        /\ UNCHANGED <<now, configVars, runVars, outsideThreshold>>

\* Registry.SetThresholds
SetThresholds(thresholdWithItem, thresholdAllItem) ==
    /\ thresholds' = thresholdWithItem
    /\ thresholdsAllItem' = thresholdAllItem
    /\ UNCHANGED <<now, states, defaultSoftPeriod, softPeriods, pushVars, runVars, outsideThreshold>>

\* Registry.SetSoftPeriod
SetSoftPeriod(defaultPeriod, periodPerMetrics) ==
    /\ defaultSoftPeriod' = defaultPeriod
    /\ softPeriods' = periodPerMetrics
    /\ UNCHANGED <<now, states, thresholds, thresholdsAllItem, pushVars, runVars, outsideThreshold>>

\* the readings of a clock that starts at 1 and advances by 150 s or 160 s
ClockReadings == {1 + 150 * a + 160 * b : a, b \in 0..2} \cap 1..MaxClock

\* the wall clock advances by d seconds, up to max; a minute timer armed by
\* the select of Registry.Run fires when d is a minute or more
AdvanceClock(d, max) ==
    /\ now + d <= max
    /\ now' = now + d
    /\ timerFired' = (timerFired \/ (runPc = "select" /\ d >= RunTick))
    /\ UNCHANGED <<thresholdVars, runPc, runCtxDone, lastSave, save, stateData, stateSets,
                   outsideThreshold>>

\* the wall clock is set back by d seconds (time.Now() jumps backward), to
\* a reading it can have shown before
ClockBackward(d) ==
    /\ now - d \in ClockReadings
    /\ now' = now - d
    /\ UNCHANGED <<thresholdVars, runVars, outsideThreshold>>

-----------------------------------------------------------------------------
(* Registry.Run: the periodic purge and save of the states *)

\* Registry.run without the purge
purgedKeepAll(st, t) == st

\* the entries Registry.run keeps (lines 363-372): LastUpdate at most 60 minutes old
purged(st, t) ==
    [k \in {x \in DOMAIN st : ~(t - st[x].LastUpdate > SaveInterval)} |-> st[k]]

\* Registry.run(save) at time t; jsonList holds the kept entries
run(doSave) ==
    /\ states' = purged(states, now)
    /\ IF doSave
       THEN /\ stateData' = MapSet(stateData, statusCacheKey, purged(states, now))
            /\ stateSets' = stateSets + 1
       ELSE UNCHANGED <<stateData, stateSets>>

\* the body of the loop of Registry.Run after the select (lines 343-351);
\* selected: the select took the ctx.Done() case
runBody(selected) ==
    LET doSave == selected \/ now - lastSave > SaveInterval
    IN  /\ run(doSave)
        /\ save' = doSave
        /\ lastSave' = IF doSave THEN now ELSE lastSave
        /\ runPc' = "head"
        /\ UNCHANGED <<now, configVars, pushVars, runCtxDone, timerFired, outsideThreshold>>

\* the loop test of line 334: ctx.Err() == nil
RunLoopTest ==
    /\ runPc = "head"
    /\ runPc' = IF runCtxDone THEN "done" ELSE "select"
    /\ timerFired' = FALSE
    /\ UNCHANGED <<now, thresholdVars, runCtxDone, lastSave, save, stateData, stateSets,
                   outsideThreshold>>

\* the select takes case <-ctx.Done()
RunSelectDone ==
    /\ runPc = "select"
    /\ runCtxDone
    /\ runBody(TRUE)

\* the select takes case <-time.After(time.Minute)
RunSelectTimer ==
    /\ runPc = "select"
    /\ timerFired
    /\ runBody(FALSE)

\* the context of Registry.Run is cancelled (shutdown)
CancelRun ==
    /\ ~runCtxDone
    /\ runCtxDone' = TRUE
    /\ UNCHANGED <<now, thresholdVars, runPc, timerFired, lastSave, save, stateData, stateSets,
                   outsideThreshold>>

-----------------------------------------------------------------------------
(* baseCheck: a service check with its background TCP connections *)

\* the timer delays of baseCheck.check
FastDelay == 30
CheckDelay == 60
\* the most probes one behaviour starts
MaxProbes == 3

\* bc.tcpAddresses and bc.mainTCPAddress of the check under study
tcpAddresses == <<"a1", "a2">>
mainTCPAddress == "a1"
Addrs == {tcpAddresses[i] : i \in DOMAIN tcpAddresses}

\* the loop of doCheck over bc.tcpAddresses from index i; tcp[addr] is what
\* checkTCP returns for addr
RECURSIVE doCheckLoop(_, _, _)
doCheckLoop(i, res, tcp) ==
    IF i > Len(tcpAddresses) THEN res
    ELSE LET addr == tcpAddresses[i]
         IN  IF addr = mainTCPAddress THEN doCheckLoop(i + 1, res, tcp)
             ELSE IF tcp[addr] # StatusOk THEN tcp[addr]
             ELSE doCheckLoop(i + 1, IF ~IsSet(res) THEN tcp[addr] ELSE res, tcp)

\* baseCheck.doCheck; main is what bc.mainCheck returns
doCheck(main, tcp) ==
    IF main # StatusOk THEN main
    ELSE LET res == doCheckLoop(1, main, tcp)
         IN  IF ~IsSet(res) THEN StatusOk ELSE res

\* a timer: armed for d seconds, fired (its value waits in timer.C) or idle
\* (stopped, or fired and its value received)
Timer(state, d) == [state |-> state, d |-> d]

\* baseCheck.check without the fast re-check
timerDelayAlwaysMinute(status, previousStatus) == CheckDelay

\* the delay baseCheck.check resets the timer to (lines 105-122)
timerDelay(status, previousStatus) ==
    IF status # StatusOk /\ previousStatus = StatusOk
    THEN FastDelay
    ELSE CheckDelay

\* a goroutine started by openSockets: where openSocket is, and whether its
\* context ctx2 is cancelled
Goroutine(pc, done) == [pc |-> pc, ctxDone |-> done]

\* calling bc.cancel (or cancelling the parent context): every ctx2 is done
cancelAll(cs) ==
    [a \in DOMAIN cs |-> [i \in DOMAIN cs[a] |-> Goroutine(cs[a][i].pc, TRUE)]]

\* the goroutines openSockets starts, one per address of bc.tcpAddresses
started(cs) ==
    [a \in DOMAIN cs |->
        IF a \in Addrs THEN Append(cs[a], Goroutine("loop", FALSE)) ELSE cs[a]]

\* baseCheck.openSockets without the test of bc.cancel
openSocketsAgain(c, cs) == [cancel |-> TRUE, conns |-> started(cs)]

\* baseCheck.openSockets: the new bc.cancel and goroutines
openSockets(c, cs) ==
    IF c
    THEN [cancel |-> c, conns |-> cs]
    ELSE [cancel |-> TRUE, conns |-> started(cs)]

\* bc.wg.Wait() returns: no goroutine is left
wgDone == \A a \in Addrs : conns[a] = <<>>

\* Run is blocked in its select with no case ready: a send on bc.triggerC
\* is received
parked == checkPc = "select" /\ timer.state # "fired" /\ ~checkCtxDone

\* conns with goroutine i of address a replaced by g
SetConn(a, i, g) == [conns EXCEPT ![a][i] = g]

\* conns without goroutine i of address a
DelConn(a, i) ==
    [conns EXCEPT ![a] = SubSeq(conns[a], 1, i - 1) \o SubSeq(conns[a], i + 1, Len(conns[a]))]

\* the timer expires: its value is sent to bc.timer.C
TimerFire ==
    /\ timer.state = "armed"
    /\ timer' = Timer("fired", timer.d)
    /\ UNCHANGED <<checkPc, checkCtxDone, runResult, probe, cancel, conns,
                   persistentConnection, acc, outsideCheck>>

\* Run's select takes case <-bc.timer.C (line 90)
RunRecvTimer ==
    /\ checkPc = "select"
    /\ timer.state = "fired"
    /\ Len(acc) < MaxProbes
    /\ timer' = Timer("idle", timer.d)
    /\ checkPc' = "probe"
    /\ UNCHANGED <<checkCtxDone, runResult, probe, cancel, conns,
                   persistentConnection, acc, outsideCheck>>

\* a trigger case that goes to the probe and leaves the timer as it is
RunKeepTimer ==
    /\ checkPc = "trigger"
    /\ checkPc' = "probe"
    /\ UNCHANGED <<checkCtxDone, runResult, probe, timer, cancel, conns,
                   persistentConnection, acc, outsideCheck>>

\* Run's select took case <-bc.triggerC: timer.Stop(), and the receive from
\* bc.timer.C when Stop returns false (lines 86-88)
RunStopTimer ==
    /\ checkPc = "trigger"
    /\ timer.state \in {"armed", "fired"}
    /\ timer' = Timer("idle", timer.d)
    /\ checkPc' = "probe"
    /\ UNCHANGED <<checkCtxDone, runResult, probe, cancel, conns,
                   persistentConnection, acc, outsideCheck>>

\* Run's select takes case <-ctx.Done() (lines 78-82)
RunRecvDone ==
    /\ checkPc = "select"
    /\ checkCtxDone
    /\ conns' = IF cancel THEN cancelAll(conns) ELSE conns
    /\ cancel' = FALSE
    /\ checkPc' = "stopping"
    /\ UNCHANGED <<checkCtxDone, runResult, probe, timer,
                   persistentConnection, acc, outsideCheck>>

\* bc.wg.Wait() of line 83 returns and Run returns
RunStopped ==
    /\ checkPc = "stopping"
    /\ wgDone
    /\ checkPc' = "done"
    /\ UNCHANGED <<checkCtxDone, runResult, probe, timer, cancel, conns,
                   persistentConnection, acc, outsideCheck>>

\* baseCheck.check from the return of doCheck to the wait or to the timer
\* reset (lines 101-118)
ProbeDone(main, tcp) ==
    /\ checkPc = "probe"
    /\ LET status == doCheck(main, tcp)
           opened == openSockets(cancel, conns)
       IN  IF checkCtxDone
           THEN /\ checkPc' = "select"
                /\ UNCHANGED <<probe, cancel, conns>>
           ELSE IF status # StatusOk
           THEN /\ probe' = status
                /\ checkPc' = IF cancel THEN "wait" ELSE "report"
                /\ conns' = IF cancel THEN cancelAll(conns) ELSE conns
                /\ UNCHANGED cancel
           ELSE /\ probe' = status
                /\ checkPc' = "report"
                /\ cancel' = opened.cancel
                /\ conns' = opened.conns
    /\ UNCHANGED <<checkCtxDone, runResult, timer, persistentConnection, acc, outsideCheck>>

\* bc.wg.Wait() of line 109 returns
CheckWaitDone ==
    /\ checkPc = "wait"
    /\ wgDone
    /\ cancel' = FALSE
    /\ checkPc' = "report"
    /\ UNCHANGED <<checkCtxDone, runResult, probe, timer, conns,
                   persistentConnection, acc, outsideCheck>>

\* the end of baseCheck.check (lines 120-137): the timer is reset, the
\* result is given to the accumulator and becomes Run's result
CheckReport ==
    /\ checkPc = "report"
    /\ timer' = Timer("armed", timerDelay(probe, runResult))
    /\ acc' = Append(acc, [value |-> NagiosCode(probe), status |-> probe])
    /\ runResult' = probe
    /\ probe' = StatusUnset
    /\ checkPc' = "select"
    /\ UNCHANGED <<checkCtxDone, cancel, conns, persistentConnection, outsideCheck>>

\* the context given to Run is cancelled, and with it every ctx2
CancelCheck ==
    /\ ~checkCtxDone
    /\ checkCtxDone' = TRUE
    /\ conns' = cancelAll(conns)
    /\ UNCHANGED <<checkPc, runResult, probe, timer, cancel,
                   persistentConnection, acc, outsideCheck>>

\* the loop test of openSocket when the goroutine starts (line 183)
ConnLoopTest(a, i) ==
    /\ conns[a][i].pc = "loop"
    /\ conns' = IF conns[a][i].ctxDone
                THEN DelConn(a, i)
                ELSE SetConn(a, i, Goroutine("dial", FALSE))
    /\ UNCHANGED <<checkPc, checkCtxDone, runResult, probe, timer, cancel,
                   persistentConnection, acc, outsideCheck>>

\* DialContext succeeds (line 199)
ConnDialOk(a, i) ==
    /\ conns[a][i].pc = "dial"
    /\ ~conns[a][i].ctxDone
    /\ conns' = SetConn(a, i, Goroutine("read", FALSE))
    /\ UNCHANGED <<checkPc, checkCtxDone, runResult, probe, timer, cancel,
                   persistentConnection, acc, outsideCheck>>

\* a failed dial whose send on bc.triggerC waits for Run to receive it
ConnDialFailBlocking(a, i) ==
    /\ conns[a][i].pc = "dial"
    /\ parked
    /\ Len(acc) < MaxProbes
    /\ conns' = SetConn(a, i, Goroutine("sleep", conns[a][i].ctxDone))
    /\ checkPc' = "trigger"
    /\ UNCHANGED <<checkCtxDone, runResult, probe, timer, cancel,
                   persistentConnection, acc, outsideCheck>>

\* DialContext fails (lines 200-206): the non-blocking send on bc.triggerC
\* is received when Run is parked, then openSocket sleeps
ConnDialFail(a, i) ==
    /\ conns[a][i].pc = "dial"
    /\ parked => Len(acc) < MaxProbes
    /\ conns' = SetConn(a, i, Goroutine("sleep", conns[a][i].ctxDone))
    /\ checkPc' = IF parked THEN "trigger" ELSE checkPc
    /\ UNCHANGED <<checkCtxDone, runResult, probe, timer, cancel,
                   persistentConnection, acc, outsideCheck>>

\* the read loop of openSocketOnce ends (lines 210-225): Read fails, or
\* ctx2 is done; then openSocket sleeps
ConnReadEnd(a, i) ==
    /\ conns[a][i].pc = "read"
    /\ conns' = SetConn(a, i, Goroutine("sleep", conns[a][i].ctxDone))
    /\ UNCHANGED <<checkPc, checkCtxDone, runResult, probe, timer, cancel,
                   persistentConnection, acc, outsideCheck>>

\* the select of openSocket returns (lines 189-192) and the loop test of
\* line 183 follows: the goroutine returns when ctx2 is done
ConnSleepEnd(a, i) ==
    /\ conns[a][i].pc = "sleep"
    /\ conns' = IF conns[a][i].ctxDone
                THEN DelConn(a, i)
                ELSE SetConn(a, i, Goroutine("dial", FALSE))
    /\ UNCHANGED <<checkPc, checkCtxDone, runResult, probe, timer, cancel,
                   persistentConnection, acc, outsideCheck>>

\* newBase, and the start of Run: the timer is created with time.NewTimer(0)
newBase(flag) ==
    /\ checkPc = "select"
    /\ checkCtxDone = FALSE
    /\ runResult = StatusOk
    /\ probe = StatusUnset
    /\ timer = Timer("armed", 0)
    /\ cancel = FALSE
    /\ conns = [a \in Addrs |-> <<>>]
    /\ persistentConnection = flag
    /\ acc = <<>>

\* the check NewNTP creates (ntp.go line 33)
InitCheck == newBase(TRUE)

-----------------------------------------------------------------------------
(* Inputs *)

\* a threshold with the high limits 80 (warning) and 90 (critical)
HighThreshold == Threshold(NaN, NaN, 80, 90)
\* a threshold with the low limits 20 (warning) and 10 (critical)
LowThreshold == Threshold(10, 20, NaN, NaN)

\* point values: ok, warning and critical for HighThreshold; 5 is critical
\* for LowThreshold
Values == {50, 85, 95}

\* a map with no entry
EmptyMap == [k \in {} |-> 0]

\* the timestamp a collector gave to the points of a name
PointTime(name) == IF name = "cpu" THEN 5 ELSE 6

\* a point as a collector sends it: no status yet
RawPoint(name, value) ==
    MetricPoint(name, "", value, PointTime(name), StatusUnset, <<>>, "")

\* a point that already carries a status (a check result)
StatusPoint(name, value) ==
    MetricPoint(name, "", value, PointTime(name), StatusOk, <<value>>, "")

\* the points and the batches given to PushPoints
PushValues == {15, 95}
Points == {RawPoint("cpu", v) : v \in PushValues}
              \cup {RawPoint("mem", 15), StatusPoint("cpu", 95)}
Batches == {<<a>> : a \in Points} \cup {<<a, b>> : a, b \in Points}

\* the threshold maps SetThresholds is called with
ItemThresholds ==
    {EmptyMap, [k \in {MetricNameItem("cpu", "")} |-> ZeroThreshold]}
NameThresholds ==
    {EmptyMap,
     [n \in Names |-> IF n = "cpu" THEN HighThreshold ELSE LowThreshold]}

\* the per-name soft periods SetSoftPeriod is called with
NamePeriods == {EmptyMap, [n \in {"cpu"} |-> 0]}

\* the soft periods SetSoftPeriod is called with
Periods == {0, 300}

\* the clock steps, forward and backward
ClockSteps == {150, 160}
BackSteps == {150, 160, 300, 310}

-----------------------------------------------------------------------------
(* The soft-status state machine of one key *)

-----------------------------------------------------------------------------
(* task.Registry: the running tasks *)

\* the most tasks one behaviour adds
MaxTasks == 3
\* the largest value of an int in the model; int wraps around above it
IntMax == 2

\* id++ on an int
nextID(id) == IF id = IntMax THEN 0 - IntMax - 1 ELSE id + 1

\* the search of AddTask for a free id, from id (lines 372-380); 0 stands
\* for the panic of line 377
RECURSIVE findID(_, _)
findID(funcs, id) ==
    IF id \notin DOMAIN funcs THEN id
    ELSE IF nextID(id) = 0 THEN 0
    ELSE findID(funcs, nextID(id))

\* a task given to AddTask: whether it is a RunCloser, the id AddTask
\* returned, whether its ctx is cancelled, whether its Run has returned, and
\* how many times its Close was called
Task(closer, id, ctxDone, returned, closes) ==
    [closer |-> closer, id |-> id, ctxDone |-> ctxDone, returned |-> returned,
     closes |-> closes]

\* what holds the mutex r.l
Op(op, taskID, step) == [op |-> op, taskID |-> taskID, step |-> step]

\* cancelWait that does not wait for the task
cancelNoWait(t) == TRUE

\* cancelWait returns (lines 384-387): waitC is closed, Run has returned
cancelWaitReturns(t) == t.returned

\* removeTask that leaves r.taskCancelFuncs as it is
keepTask(funcs, taskID) == funcs

\* delete(r.taskCancelFuncs, taskID) (line 423)
deleteTask(funcs, taskID) == [k \in DOMAIN funcs \ {taskID} |-> funcs[k]]

\* every ctx derived from a cancelled context is cancelled
cancelTasks(ts) ==
    [n \in DOMAIN ts |-> Task(ts[n].closer, ts[n].id, TRUE, ts[n].returned, ts[n].closes)]

\* Registry.AddTask (lines 368-400); closer: the task is a RunCloser
AddTask(closer) ==
    /\ regOp.op = "none"
    /\ Len(taskRuns) < MaxTasks
    /\ LET id == findID(taskCancelFuncs, 1)
           n == Len(taskRuns) + 1
       IN  /\ id # 0
           /\ taskRuns' = Append(taskRuns, Task(closer, id, regCtxDone, FALSE, 0))
           /\ taskCancelFuncs' = MapSet(taskCancelFuncs, id, n)
           /\ tasks' = MapSet(tasks, id, n)
           /\ regOp' = Op("none", id, "added")
    /\ UNCHANGED <<regCtxDone, closeRemoved, outsideTask>>

\* removeTask up to the wait in cancel() (lines 410-411), or all of it when
\* the id is not registered (lines 419-423), on behalf of op; after is where
\* op continues
removeTaskBegin(op, taskID, after) ==
    IF taskID \in DOMAIN taskCancelFuncs
    THEN LET n == taskCancelFuncs[taskID]
         IN  /\ taskRuns' = [taskRuns EXCEPT ![n].ctxDone = TRUE]
             /\ regOp' = Op(op, taskID, "wait")
             /\ UNCHANGED taskCancelFuncs
    ELSE /\ taskCancelFuncs' = deleteTask(taskCancelFuncs, taskID)
         /\ regOp' = after
         /\ UNCHANGED taskRuns

\* Registry.RemoveTask (lines 403-407) takes the mutex and calls removeTask
RemoveTask(taskID) ==
    /\ regOp.op = "none"
    /\ removeTaskBegin("RemoveTask", taskID, Op("none", taskID, "unknown"))
    /\ UNCHANGED <<regCtxDone, tasks, closeRemoved, outsideTask>>

\* the rest of removeTask (lines 411-423): cancel() returns, Close is called
\* on a RunCloser, the id is deleted; RemoveTask returns, Close goes on with
\* its loop
CancelWaitDone ==
    /\ regOp.step = "wait"
    /\ cancelWaitReturns(taskRuns[taskCancelFuncs[regOp.taskID]])
    /\ LET n == tasks[regOp.taskID]
       IN  taskRuns' = IF taskRuns[n].closer
                       THEN [taskRuns EXCEPT ![n].closes = @ + 1]
                       ELSE taskRuns
    /\ taskCancelFuncs' = deleteTask(taskCancelFuncs, regOp.taskID)
    /\ regOp' = IF regOp.op = "Close"
                THEN Op("Close", regOp.taskID, "range")
                ELSE Op("none", regOp.taskID, "removed")
    /\ closeRemoved' = IF regOp.op = "Close" THEN closeRemoved + 1 ELSE closeRemoved
    /\ UNCHANGED <<regCtxDone, tasks, outsideTask>>

\* Registry.Close takes the mutex (line 360)
CloseBegin ==
    /\ regOp.op = "none"
    /\ regOp' = Op("Close", 0, "range")
    /\ UNCHANGED <<regCtxDone, tasks, taskCancelFuncs, taskRuns, closeRemoved, outsideTask>>

\* the loop of Registry.Close (lines 362-364): removeTask on the next key of
\* r.taskCancelFuncs, in any order
CloseRange(k) ==
    /\ regOp.op = "Close"
    /\ regOp.step = "range"
    /\ k \in DOMAIN taskCancelFuncs
    /\ removeTaskBegin("Close", k, Op("Close", k, "range"))
    /\ UNCHANGED <<regCtxDone, tasks, closeRemoved, outsideTask>>

\* the loop of Registry.Close is over and Close returns
CloseReturn ==
    /\ regOp.op = "Close"
    /\ regOp.step = "range"
    /\ DOMAIN taskCancelFuncs = {}
    /\ regOp' = Op("none", 0, "closed")
    /\ UNCHANGED <<regCtxDone, tasks, taskCancelFuncs, taskRuns, closeRemoved, outsideTask>>

\* task.Run(ctx) returns and waitC is closed (lines 388-394)
TaskRunReturn(n) ==
    /\ ~taskRuns[n].returned
    /\ taskRuns' = [taskRuns EXCEPT ![n].returned = TRUE]
    /\ UNCHANGED <<regCtxDone, tasks, taskCancelFuncs, regOp, closeRemoved, outsideTask>>

\* the context given to NewRegistry is cancelled
CancelRegistry ==
    /\ ~regCtxDone
    /\ regCtxDone' = TRUE
    /\ taskRuns' = cancelTasks(taskRuns)
    /\ UNCHANGED <<tasks, taskCancelFuncs, regOp, closeRemoved, outsideTask>>

-----------------------------------------------------------------------------
(* discovery.Discovery: the services map and its refresh *)

\* the last reading of the clock in a behaviour of the discovery
MaxDiscClock == 91
\* the time between two readings of the clock
DiscTick == 30

\* the callers of Discovery and RemoveIfNonRunning
Callers == {1, 2}

ServiceNames == {"nginx", "redis"}

\* the key of d.servicesMap
nameContainer(name, containerID) == <<name, containerID>>

ServiceKeys == {nameContainer(n, "") : n \in ServiceNames}

\* a Service: the fields the refresh reads or writes
Service(name, active, hasNetstatInfo, listenAddresses, ipAddress) ==
    [Name |-> name, ContainerID |-> "", Active |-> active,
     hasNetstatInfo |-> hasNetstatInfo, ListenAddresses |-> listenAddresses,
     IPAddress |-> ipAddress]

keyOf(service) == nameContainer(service.Name, service.ContainerID)

\* an answer of the dynamic discoverer: an error, or the services observed
Report(err, services) == [err |-> err, services |-> services]
DiscoveryError == Report(TRUE, <<>>)

\* updateDiscovery that copies nothing from the previous service
carryNothing(previousService, service) == service

\* the service updateDiscovery stores when the key has a previous service
\* (lines 161-167)
carryOver(previousService, service) ==
    IF previousService.hasNetstatInfo /\ ~service.hasNetstatInfo
    THEN [service EXCEPT !.ListenAddresses = previousService.ListenAddresses,
                         !.IPAddress = previousService.IPAddress,
                         !.hasNetstatInfo = previousService.hasNetstatInfo]
    ELSE service

\* updateDiscovery that forgets the services of the previous map
markNone(prev) == EmptyMap

\* the first loop of updateDiscovery (lines 150-154): every known service,
\* with Active = false
markInactive(prev) == [key \in DOMAIN prev |-> [prev[key] EXCEPT !.Active = FALSE]]

\* the second loop of updateDiscovery (lines 156-169), from index i of r
RECURSIVE mergeLoop(_, _, _)
mergeLoop(sm, r, i) ==
    IF i > Len(r) THEN sm
    ELSE LET service == r[i]
             key == keyOf(service)
             stored == IF key \in DOMAIN sm THEN carryOver(sm[key], service) ELSE service
         IN  mergeLoop(MapSet(sm, key, stored), r, i + 1)

\* updateDiscovery that drops the services map when the discoverer fails
updateDiscoveryDropOnError(prev, r) ==
    IF r.err
    THEN [err |-> TRUE, servicesMap |-> EmptyMap]
    ELSE [err |-> FALSE, servicesMap |-> mergeLoop(markInactive(prev), r.services, 1)]

\* Discovery.updateDiscovery on the answer r of the dynamic discoverer: the
\* error it returns and the map d.servicesMap is after it
updateDiscovery(prev, r) ==
    IF r.err
    THEN [err |-> TRUE, servicesMap |-> prev]
    ELSE [err |-> FALSE, servicesMap |-> mergeLoop(markInactive(prev), r.services, 1)]

\* the keys whose input or check is removed when the configuration goes from
\* the map old to the map new: vanished or changed services
removedKeys(active, old, new) ==
    {key \in active : key \notin DOMAIN new \/ (key \in DOMAIN old /\ old[key] # new[key])}

\* the keys whose input or check is added: appeared or changed services
addedKeys(old, new) ==
    {key \in DOMAIN new : key \notin DOMAIN old \/ old[key] # new[key]}

\* configureMetricInputs and configureChecks: the keys configured after
\* them, and the number of calls made to the collector or the registry
configure(active, old, new) ==
    [active |-> (active \ removedKeys(active, old, new)) \cup addedKeys(old, new),
     calls |-> Cardinality(removedKeys(active, old, new)) + Cardinality(addedKeys(old, new))]

\* where a caller is: pc is "idle", "update" (in the call of the dynamic
\* discoverer), "reconfigure" or "relock"; op is the method it called;
\* result is what updateDiscovery returned to it
Call(pc, op, res) == [pc |-> pc, op |-> op, result |-> res]
NoResult == [err |-> FALSE, servicesMap |-> EmptyMap]
Idle == Call("idle", "", NoResult)

\* observer: a step of caller p; report is the answer of the dynamic
\* discoverer, removed the keys RemoveIfNonRunning deleted, services what
\* Discovery returned
Op5(op, p, report, removed, services) ==
    [op |-> op, p |-> p, report |-> report, removed |-> removed, services |-> services]

\* observer: the endpoints last seen with netstat for a key, and whether
\* RemoveIfNonRunning has deleted the key since
Netstat(seen, listenAddresses, ipAddress, removed) ==
    [seen |-> seen, ListenAddresses |-> listenAddresses, IPAddress |-> ipAddress,
     removed |-> removed]
NoNetstat == Netstat(FALSE, <<>>, "", FALSE)

\* observer: the endpoints seen with netstat after the report r, from index i
RECURSIVE seenLoop(_, _, _)
seenLoop(seen, r, i) ==
    IF i > Len(r) THEN seen
    ELSE LET service == r[i]
         IN  seenLoop(IF service.hasNetstatInfo
                      THEN MapSet(seen, keyOf(service),
                                  Netstat(TRUE, service.ListenAddresses,
                                          service.IPAddress, FALSE))
                      ELSE seen, r, i + 1)

\* the test of Discovery.discovery (line 98): the last refresh is too old
tooOld(maxAge) == now - lastDiscoveryUpdate > maxAge

\* Discovery.Discovery (lines 83-112) takes d.l; when the last refresh is
\* too old it calls the dynamic discoverer, else it returns the services
DiscoveryCall(p, maxAge) ==
    /\ disc[p].pc = "idle"
    /\ discLock = 0
    /\ IF tooOld(maxAge)
       THEN /\ disc' = [disc EXCEPT ![p] = Call("update", "Discovery", NoResult)]
            /\ discLock' = p
            /\ lastOp' = Op5("call", p, <<>>, {}, EmptyMap)
       ELSE /\ lastOp' = Op5("return", p, <<>>, {}, servicesMap)
            /\ UNCHANGED <<disc, discLock>>
    /\ UNCHANGED <<servicesMap, lastDiscoveryUpdate, lastConfigservicesMap, activeInput,
                   activeCheck, configCalls, netstatSeen, outsideDiscovery>>

\* the dynamic discoverer answers r to updateDiscovery (lines 144-173); on an
\* error Discovery returns it (lines 100-102) and RemoveIfNonRunning logs it
DynamicDiscovered(p, r) ==
    /\ disc[p].pc = "update"
    /\ discLock = p
    /\ LET res == updateDiscovery(servicesMap, r)
       IN  IF res.err
           THEN /\ disc' = [disc EXCEPT ![p] = Idle]
                /\ discLock' = 0
                /\ lastOp' = Op5("error", p, <<>>, {}, EmptyMap)
                /\ UNCHANGED netstatSeen
                /\ servicesMap' = res.servicesMap
           ELSE /\ disc' = [disc EXCEPT ![p] = Call("reconfigure", disc[p].op, NoResult)]
                /\ lastOp' = Op5("update", p, r.services, {}, EmptyMap)
                /\ netstatSeen' = seenLoop(netstatSeen, r.services, 1)
                /\ servicesMap' = res.servicesMap
                /\ UNCHANGED discLock
    /\ UNCHANGED <<lastDiscoveryUpdate, lastConfigservicesMap, activeInput,
                   activeCheck, configCalls, outsideDiscovery>>

\* Discovery.reconfigure (lines 135-142), then the end of Discovery.discovery
\* (lines 104-111) and the release of d.l
Reconfigure(p) ==
    /\ disc[p].pc = "reconfigure"
    /\ discLock = p
    /\ LET old == lastConfigservicesMap
           inputs == configure(activeInput, old, servicesMap)
           checks == configure(activeCheck, old, servicesMap)
       IN  /\ activeInput' = inputs.active
           /\ activeCheck' = checks.active
           /\ configCalls' = configCalls + inputs.calls + checks.calls
    /\ lastConfigservicesMap' = servicesMap
    /\ lastDiscoveryUpdate' = now
    /\ disc' = [disc EXCEPT ![p] = Idle]
    /\ discLock' = 0
    /\ lastOp' = Op5("refreshed", p, <<>>, {}, servicesMap)
    /\ UNCHANGED <<servicesMap, netstatSeen, outsideDiscovery>>

\* Discovery.RemoveIfNonRunning (lines 117-133) on the services with the
\* keys ks: they are deleted, and when one was known d.discovery(ctx, 0) runs
RemoveIfNonRunning(p, ks) ==
    /\ disc[p].pc = "idle"
    /\ discLock = 0
    /\ LET deleted == ks \cap DOMAIN servicesMap # {}
       IN  /\ servicesMap' = [key \in DOMAIN servicesMap \ ks |-> servicesMap[key]]
           /\ netstatSeen' = [key \in DOMAIN netstatSeen |->
                                IF key \in ks /\ netstatSeen[key].seen
                                THEN [netstatSeen[key] EXCEPT !.removed = TRUE]
                                ELSE netstatSeen[key]]
           /\ lastOp' = Op5("remove", p, <<>>, ks \cap DOMAIN servicesMap, EmptyMap)
           /\ IF deleted /\ tooOld(0)
              THEN /\ disc' = [disc EXCEPT ![p] = Call("update", "RemoveIfNonRunning", NoResult)]
                   /\ discLock' = p
              ELSE UNCHANGED <<disc, discLock>>
    /\ UNCHANGED <<lastDiscoveryUpdate, lastConfigservicesMap, activeInput,
                   activeCheck, configCalls, outsideDiscovery>>

\* agentgo's Discovery.Discovery up to the call of updateDiscovery
\* (agentgo discovery.go lines 73-79): d.l is released before the call
OldDiscoveryCall(p, maxAge) ==
    /\ disc[p].pc = "idle"
    /\ discLock = 0
    /\ IF tooOld(maxAge)
       THEN /\ disc' = [disc EXCEPT ![p] = Call("update", "Discovery", NoResult)]
            /\ lastOp' = Op5("call", p, <<>>, {}, EmptyMap)
       ELSE /\ lastOp' = Op5("return", p, <<>>, {}, servicesMap)
            /\ UNCHANGED disc
    /\ UNCHANGED <<servicesMap, lastDiscoveryUpdate, lastConfigservicesMap, activeInput,
                   activeCheck, configCalls, discLock, netstatSeen, outsideDiscovery>>

\* agentgo's updateDiscovery (lines 103-131) returns the new map, built from
\* d.servicesMap as it is read without d.l
OldDynamicDiscovered(p, r) ==
    /\ disc[p].pc = "update"
    /\ disc' = [disc EXCEPT ![p] = Call("relock", "Discovery", updateDiscovery(servicesMap, r))]
    /\ lastOp' = Op5("update", p, r.services, {}, EmptyMap)
    /\ netstatSeen' = seenLoop(netstatSeen, r.services, 1)
    /\ UNCHANGED <<servicesMap, lastDiscoveryUpdate, lastConfigservicesMap, activeInput,
                   activeCheck, configCalls, discLock, outsideDiscovery>>

\* agentgo's Discovery.Discovery from d.l.Lock() of line 80 to its return
OldReconfigure(p) ==
    /\ disc[p].pc = "relock"
    /\ discLock = 0
    /\ disc' = [disc EXCEPT ![p] = Idle]
    /\ IF disc[p].result.err
       THEN /\ lastOp' = Op5("error", p, <<>>, {}, EmptyMap)
            /\ UNCHANGED <<servicesMap, lastDiscoveryUpdate, activeInput, activeCheck,
                           configCalls>>
       ELSE LET new == disc[p].result.servicesMap
                inputs == configure(activeInput, servicesMap, new)
                checks == configure(activeCheck, servicesMap, new)
            IN  /\ activeInput' = inputs.active
                /\ activeCheck' = checks.active
                /\ configCalls' = configCalls + inputs.calls + checks.calls
                /\ servicesMap' = new
                /\ lastDiscoveryUpdate' = now
                /\ lastOp' = Op5("refreshed", p, <<>>, {}, new)
    /\ UNCHANGED <<lastConfigservicesMap, discLock, netstatSeen, outsideDiscovery>>

\* the service New is given in initialServices: redis, known from an
\* earlier run
PersistedService == Service("redis", TRUE, FALSE, <<>>, "")

\* discovery.New (lines 51-70)
InitDiscovery ==
    /\ servicesMap = MapSet(EmptyMap, keyOf(PersistedService), PersistedService)
    /\ lastDiscoveryUpdate = 0
    /\ lastConfigservicesMap = EmptyMap
    /\ activeInput = {}
    /\ activeCheck = {}
    /\ configCalls = 0
    /\ discLock = 0
    /\ disc = [p \in Callers |-> Idle]
    /\ lastOp = Op5("new", 0, <<>>, {}, EmptyMap)
    /\ netstatSeen = [key \in ServiceKeys |-> NoNetstat]

-----------------------------------------------------------------------------
(* prometheus registry.Registry: the pushed points *)

\* pushedPointsCleanupInterval, in tenths of a second
pushedPointsCleanupInterval == 3000
\* the first reading of the registry clock: the wall clock is far from the
\* zero time.Time, which reads 0
PromEpoch == 10000
\* the most calls of Gather in one behaviour
MaxGathers == 3

\* the label sets of the pushed points
LabelSets ==
    {[n \in {"__name__"} |-> "cpu_used"],
     [n \in {"__name__", "item"} |-> IF n = "item" THEN "/home" ELSE "disk_used"]}

\* types.LabelsToText: a text that is the same for the same labels
LabelsToText(labels) == {<<n, labels[n]>> : n \in DOMAIN labels}

\* a types.MetricPoint of the registry
PromPoint(labels, time, value) == [Labels |-> labels, Time |-> time, Value |-> value]

\* the metric pushCollector.Collect builds from a point (lines 389-401)
Metric(p) ==
    [name |-> p.Labels["__name__"],
     labels |-> [n \in DOMAIN p.Labels \ {"__name__"} |-> p.Labels[n]],
     time |-> p.Time, value |-> p.Value]

\* pushCollector.Collect that keeps and sends every point
unexpiredAll(points, expiration, t) == DOMAIN points

\* the keys pushCollector.Collect and pushPoint keep at time t (lines 298
\* and 384): now.After(expiration) is false
unexpired(points, expiration, t) == {key \in DOMAIN points : ~(t > expiration[key])}

\* the first loop of pushPoint (lines 286-290) from index i of points
RECURSIVE storeLoop(_, _, _, _, _)
storeLoop(pp, exp, points, i, deadline) ==
    IF i > Len(points) THEN [points |-> pp, expiration |-> exp]
    ELSE LET key == LabelsToText(points[i].Labels)
         IN  storeLoop(MapSet(pp, key, points[i]), MapSet(exp, key, deadline),
                       points, i + 1, deadline)

\* observer: the last push of each key after the push of points with ttl at t
RECURSIVE logLoop(_, _, _, _, _)
logLoop(log, points, i, ttl, t) ==
    IF i > Len(points) THEN log
    ELSE logLoop(MapSet(log, LabelsToText(points[i].Labels),
                        [point |-> points[i], time |-> t, ttl |-> ttl]),
                 points, i + 1, ttl, t)

\* Registry.pushPoint (lines 275-307); r.PushPoint is nil
pushPoint(points, ttl) ==
    LET deadline == promNow + ttl
        stored == storeLoop(pushedPoints, pushedPointsExpiration, points, 1, deadline)
        sweep == promNow - lastPushedPointsCleanup > pushedPointsCleanupInterval
        kept == IF sweep
                THEN unexpired(stored.points, stored.expiration, promNow)
                ELSE DOMAIN stored.points
    IN  /\ pushedPoints' = [key \in kept |-> stored.points[key]]
        /\ pushedPointsExpiration' = [key \in kept |-> stored.expiration[key]]
        /\ lastPushedPointsCleanup' = IF sweep THEN promNow ELSE lastPushedPointsCleanup
        /\ pushLog' = logLoop(pushLog, points, 1, ttl, promNow)
        /\ UNCHANGED <<promNow, gathered, currentDelay, updateDelayC, collPc, collCtxDone,
                       tickerDelay, updaters, outsideProm>>

\* Registry.Gather, as far as the pushed points go: pushCollector.Collect
\* (lines 373-404)
Collect ==
    LET kept == unexpired(pushedPoints, pushedPointsExpiration, promNow)
    IN  /\ gathered.n < MaxGathers
        /\ lastPushedPointsCleanup' = promNow
        /\ pushedPoints' = [key \in kept |-> pushedPoints[key]]
        /\ pushedPointsExpiration' = [key \in kept |-> pushedPointsExpiration[key]]
        /\ gathered' = [n |-> gathered.n + 1,
                        metrics |-> {[key |-> key, metric |-> Metric(pushedPoints[key])] : key \in kept}]
        /\ UNCHANGED <<promNow, pushLog, currentDelay, updateDelayC, collPc, collCtxDone,
                       tickerDelay, updaters, outsideProm>>

\* the readings of the registry clock: a second, 1.1 s or the cleanup
\* interval after one another
PromReadings ==
    {PromEpoch + 10 * a + 11 * b + pushedPointsCleanupInterval * c : a, b, c \in 0..1}

\* the registry clock advances by d tenths of a second
PromTick(d) ==
    /\ promNow + d \in PromReadings
    /\ promNow' = promNow + d
    /\ UNCHANGED <<pushedPoints, pushedPointsExpiration, lastPushedPointsCleanup, gathered,
                   pushLog, currentDelay, updateDelayC, collPc, collCtxDone, tickerDelay,
                   updaters, outsideProm>>

\* a Registry{} before any push
InitPushed ==
    /\ promNow = PromEpoch
    /\ pushedPoints = EmptyMap
    /\ pushedPointsExpiration = EmptyMap
    /\ lastPushedPointsCleanup = 0
    /\ gathered = [n |-> 0, metrics |-> {}]
    /\ pushLog = EmptyMap

-----------------------------------------------------------------------------
(* prometheus registry.Registry: the collection loop and its delay *)

\* the delay RunCollection sets when none is set (line 179), in seconds
DefaultDelay == 10

\* the goroutines that call UpdateDelay
Updaters == {1, 2}

\* where a caller of UpdateDelay is: pc is "idle" or "send" (in the send of
\* line 204); delay is the delay it gave last; changed tells whether that
\* call changed r.currentDelay
Update3(pc, delay, changed) == [pc |-> pc, delay |-> delay, changed |-> changed]

\* Registry.RunCollection up to its loop (lines 167-187)
RunCollection ==
    /\ collPc = "new"
    /\ currentDelay' = IF currentDelay = 0 THEN DefaultDelay ELSE currentDelay
    /\ collPc' = "test"
    /\ UNCHANGED <<promNow, pushedPoints, pushedPointsExpiration, lastPushedPointsCleanup,
                   gathered, pushLog, updateDelayC, collCtxDone, tickerDelay, updaters,
                   outsideProm>>

\* the loop test of RunCollection (line 189), then the start of Registry.run
\* (lines 208-212): it reads r.currentDelay and sleeps to align
CollLoopTest ==
    /\ collPc = "test"
    /\ IF collCtxDone
       THEN collPc' = "returned" /\ UNCHANGED tickerDelay
       ELSE collPc' = "align" /\ tickerDelay' = currentDelay
    /\ UNCHANGED <<promNow, pushedPoints, pushedPointsExpiration, lastPushedPointsCleanup,
                   gathered, pushLog, currentDelay, updateDelayC, collCtxDone, updaters,
                   outsideProm>>

\* sleepToAlign returns and the ticker is created (lines 212-214)
CollAligned ==
    /\ collPc = "align"
    /\ collPc' = "gather"
    /\ UNCHANGED <<promNow, pushedPoints, pushedPointsExpiration, lastPushedPointsCleanup,
                   gathered, pushLog, currentDelay, updateDelayC, collCtxDone, tickerDelay,
                   updaters, outsideProm>>

\* r.runOnce() returns (line 216)
CollRunOnce ==
    /\ collPc = "gather"
    /\ collPc' = "select"
    /\ UNCHANGED <<promNow, pushedPoints, pushedPointsExpiration, lastPushedPointsCleanup,
                   gathered, pushLog, currentDelay, updateDelayC, collCtxDone, tickerDelay,
                   updaters, outsideProm>>

\* the select of Registry.run takes case <-ticker.C (line 220)
CollSelectTicker ==
    /\ collPc = "select"
    /\ collPc' = "gather"
    /\ UNCHANGED <<promNow, pushedPoints, pushedPointsExpiration, lastPushedPointsCleanup,
                   gathered, pushLog, currentDelay, updateDelayC, collCtxDone, tickerDelay,
                   updaters, outsideProm>>

\* the select of Registry.run takes case <-ctx.Done() (lines 221-222)
CollSelectDone ==
    /\ collPc = "select"
    /\ collCtxDone
    /\ collPc' = "test"
    /\ UNCHANGED <<promNow, pushedPoints, pushedPointsExpiration, lastPushedPointsCleanup,
                   gathered, pushLog, currentDelay, updateDelayC, collCtxDone, tickerDelay,
                   updaters, outsideProm>>

\* the select of Registry.run takes case <-r.updateDelayC (lines 218-219):
\* it receives what caller p sends, and the send of p returns (line 204)
CollSelectUpdate(p) ==
    /\ collPc = "select"
    /\ updateDelayC # "nil"
    /\ updaters[p].pc = "send"
    /\ collPc' = "test"
    /\ updaters' = [updaters EXCEPT ![p] = Update3("idle", updaters[p].delay, TRUE)]
    /\ UNCHANGED <<promNow, pushedPoints, pushedPointsExpiration, lastPushedPointsCleanup,
                   gathered, pushLog, currentDelay, updateDelayC, collCtxDone, tickerDelay,
                   outsideProm>>

\* Registry.UpdateDelay (lines 195-205) up to its send on r.updateDelayC
UpdateDelay(p, delay) ==
    /\ updaters[p].pc = "idle"
    /\ IF currentDelay = delay
       THEN /\ updaters' = [updaters EXCEPT ![p] = Update3("idle", delay, FALSE)]
            /\ UNCHANGED currentDelay
       ELSE /\ updaters' = [updaters EXCEPT ![p] = Update3("send", delay, TRUE)]
            /\ currentDelay' = delay
    /\ UNCHANGED <<promNow, pushedPoints, pushedPointsExpiration, lastPushedPointsCleanup,
                   gathered, pushLog, updateDelayC, collPc, collCtxDone, tickerDelay,
                   outsideProm>>

\* the context given to RunCollection is cancelled
CancelCollection ==
    /\ ~collCtxDone
    /\ collCtxDone' = TRUE
    /\ UNCHANGED <<promNow, pushedPoints, pushedPointsExpiration, lastPushedPointsCleanup,
                   gathered, pushLog, currentDelay, updateDelayC, collPc, tickerDelay, updaters,
                   outsideProm>>

\* a Registry whose updateDelayC is c, before RunCollection
newRegistry(c) ==
    /\ currentDelay = 0
    /\ updateDelayC = c
    /\ collPc = "new"
    /\ collCtxDone = FALSE
    /\ tickerDelay = 0
    /\ updaters = [p \in Updaters |-> Update3("idle", 0, FALSE)]

\* the zero Registry{}: its updateDelayC is nil
InitProm == InitPushed /\ newRegistry("nil")

(* ------------------------------------------------------------------ *)
(* synchronizer.Synchronizer: the Run loop, runOnce, checkDuplicated,  *)
(* the disablement (disabledUntil, disableReason), and the             *)
(* Connector.disableCallback it is given as option.DisableCallback.    *)
(* Times are in seconds.                                               *)
(* ------------------------------------------------------------------ *)
SyncEpoch == 2000           \* first reading of the clock
SyncTick == 450             \* the clock moves by this much
MaxSyncClock == 3350        \* last reading of the clock
MaxSuccessiveErrors == 2    \* failed iterations in a row

\* time.Time{}, before every reading of the clock
ZeroTime == 0

\* types.DisableReason
DisableTooManyErrors == "TooManyErrors"
DisableDuplicatedAgent == "DuplicatedAgent"
DisableAgentTooOld == "AgentTooOld"
NoReason == ""

\* a JitterDelay that does not cap the value
JitterDelayNoMax(valueMilli, factorPct, maxSecond) ==
    LET top == valueMilli * (100 + factorPct)
    IN  ((valueMilli * (100 - factorPct)) \div 100000) ..
        (IF top % 100000 = 0 THEN (top \div 100000) - 1 ELSE top \div 100000)

\* common.JitterDelay: int(value * scale) seconds for scale in
\* [1-factor, 1+factor[, value capped by max; the value is given in
\* thousandths of a second and the factor in hundredths
JitterDelay(valueMilli, factorPct, maxSecond) ==
    LET v == IF valueMilli > maxSecond * 1000 THEN maxSecond * 1000 ELSE valueMilli
        top == v * (100 + factorPct)
    IN  ((v * (100 - factorPct)) \div 100000) ..
        (IF top % 100000 = 0 THEN (top \div 100000) - 1 ELSE top \div 100000)

\* the smallest and the largest delay of a set of delays
Extremes(S) ==
    {d \in S : (\A e \in S : d <= e) \/ (\A e \in S : d >= e)}

\* math.Pow(1.55, n), in thousandths
RECURSIVE PowMilli(_)
PowMilli(n) == IF n = 0 THEN 1000 ELSE (PowMilli(n - 1) * 155) \div 100

\* the delay of Run after the n-th failed iteration in a row
backoffDelay(n) == JitterDelay(15000 + PowMilli(n), 10, 900)

\* a disable that ignores force and the deadline already set
disableAlways(until, reason, force) ==
    [disabledUntil |-> until, disableReason |-> reason]

\* Synchronizer.disable: the deadline and the reason after the call
disable(until, reason, force) ==
    IF force \/ disabledUntil < until
    THEN [disabledUntil |-> until, disableReason |-> reason]
    ELSE [disabledUntil |-> disabledUntil, disableReason |-> disableReason]

\* what lastDisable holds: the arguments of the call and the
\* deadline and reason it found
DisableCall(until, reason, force) ==
    [called |-> TRUE, until |-> until, reason |-> reason, force |-> force,
     wasUntil |-> disabledUntil, wasReason |-> disableReason]

NoDisableCall ==
    [called |-> FALSE, until |-> ZeroTime, reason |-> NoReason, force |-> FALSE,
     wasUntil |-> ZeroTime, wasReason |-> NoReason]

\* what lastCallback holds
CallbackCall(reason, until) == [called |-> TRUE, reason |-> reason, until |-> until]

NoCallbackCall == [called |-> FALSE, reason |-> NoReason, until |-> ZeroTime]

\* Connector.disableCallback from c.l.Lock() on: with a later
\* deadline already set it returns with c.l locked; else it stores
\* the deadline, unlocks and calls c.sync.Disable
disableCallback(reason, until) ==
    IF connector.disabledUntil > until
    THEN [connector |-> [connector EXCEPT !.l = "locked"], disables |-> FALSE]
    ELSE [connector |-> [disabledUntil |-> until, disableReason |-> reason, l |-> "free"],
          disables |-> TRUE]

\* a call of option.DisableCallback, by a caller that got c.l
CallDisableCallback(reason, until) ==
    LET r == disableCallback(reason, until)
        s == disable(until, reason, TRUE)
    IN  /\ connector.l = "free"
        /\ connector' = r.connector
        /\ lastCallback' = CallbackCall(reason, until)
        /\ IF r.disables
           THEN /\ disabledUntil' = s.disabledUntil
                /\ disableReason' = s.disableReason
                /\ lastDisable' = DisableCall(until, reason, TRUE)
           ELSE /\ UNCHANGED <<disabledUntil, disableReason>>
                /\ lastDisable' = NoDisableCall

\* the step made no call of disable or of the callback
noCalls == lastDisable' = NoDisableCall /\ lastCallback' = NoCallbackCall

\* types.AgentFact under its key, and the absence of the key
AgentFact(ID, Value) == [ok |-> TRUE, ID |-> ID, Value |-> Value]

NoFact == [ok |-> FALSE, ID |-> "", Value |-> ""]

\* factNames of checkDuplicated
factNames == <<"fqdn", "primary_address", "primary_mac_address">>

\* a cache or a fetched list of facts
Facts(fqdn, address, mac) ==
    [name \in {factNames[i] : i \in 1..3} |->
        IF name = "fqdn" THEN fqdn
        ELSE IF name = "primary_address" THEN address ELSE mac]

\* the body of checkDuplicated's loop finds the name changed:
\* both present, and old == new is false
factChanged(oldFacts, newFacts, name) ==
    /\ oldFacts[name].ok
    /\ newFacts[name].ok
    /\ oldFacts[name] # newFacts[name]

\* a check that disables only when the Value differs
factValueChanged(oldFacts, newFacts, name) ==
    /\ oldFacts[name].ok
    /\ newFacts[name].ok
    /\ oldFacts[name].Value # newFacts[name].Value

\* checkDuplicated's loop reaches its Disable
duplicated(oldFacts, newFacts) ==
    \E i \in 1..3 : factChanged(oldFacts, newFacts, factNames[i])

\* syncStep of runOnce
syncStep == <<"agent", "facts", "services", "containers", "metrics">>

\* syncMethods[key] = value when cond holds
setIf(cond, methods, key, value) == IF cond THEN MapSet(methods, key, value) ELSE methods

\* the loop of syncToPerform over s.forceSync
RECURSIVE forceLoop(_, _)
forceLoop(methods, forceSync) ==
    IF DOMAIN forceSync = {} THEN methods
    ELSE LET k == CHOOSE k \in DOMAIN forceSync : TRUE
         IN  forceLoop(MapSet(methods, k, forceSync[k] \/ (k \in DOMAIN methods /\ methods[k])),
                       [n \in DOMAIN forceSync \ {k} |-> forceSync[n]])

\* a syncToPerform in which metrics does not follow services and
\* containers
syncToPerformNoFollow(fullSync, factsUpdated, discoveryUpdated, metricCountChanged, forceSync) ==
    LET m1 == setIf(fullSync, EmptyMap, "agent", fullSync)
        m2 == setIf(fullSync \/ factsUpdated, m1, "facts", fullSync)
        m3 == setIf(fullSync \/ discoveryUpdated, m2, "services", fullSync)
        m4 == setIf(fullSync \/ discoveryUpdated, m3, "containers", fullSync)
        m5 == setIf(fullSync \/ metricCountChanged, m4, "metrics", fullSync)
    IN  forceLoop(m5, forceSync)

\* Synchronizer.syncToPerform: the steps to perform, each with its
\* full flag; forceSync is s.forceSync, which the call empties
syncToPerform(fullSync, factsUpdated, discoveryUpdated, metricCountChanged, forceSync) ==
    LET m1 == setIf(fullSync, EmptyMap, "agent", fullSync)
        m2 == setIf(fullSync \/ factsUpdated, m1, "facts", fullSync)
        m3 == setIf(fullSync \/ discoveryUpdated, m2, "services", fullSync)
        m4 == setIf(fullSync \/ discoveryUpdated, m3, "containers", fullSync)
        m5 == setIf("services" \in DOMAIN m4, m4, "metrics", FALSE)
        m6 == setIf("containers" \in DOMAIN m5, m5, "metrics", FALSE)
        m7 == setIf(fullSync \/ discoveryUpdated \/ metricCountChanged, m6, "metrics", fullSync)
    IN  forceLoop(m7, forceSync)

\* a call of syncToPerform
SyncToPerform(fullSync, factsUpdated, discoveryUpdated, metricCountChanged, forceSync) ==
    /\ selection' = [called |-> TRUE, fullSync |-> fullSync, factsUpdated |-> factsUpdated,
                     discoveryUpdated |-> discoveryUpdated,
                     metricCountChanged |-> metricCountChanged, forceSync |-> forceSync,
                     syncMethods |-> syncToPerform(fullSync, factsUpdated, discoveryUpdated,
                                                   metricCountChanged, forceSync)]
    /\ UNCHANGED outsideSelect

\* no call of syncToPerform yet
InitSelect ==
    selection = [called |-> FALSE, fullSync |-> FALSE, factsUpdated |-> FALSE,
                 discoveryUpdated |-> FALSE, metricCountChanged |-> FALSE,
                 forceSync |-> EmptyMap, syncMethods |-> EmptyMap]

\* Run up to its loop: successiveErrors and minimalDelay
Run ==
    /\ syncPc = "start"
    /\ IF \E i \in 1..3 : factsByKey[factNames[i]].ok
       THEN \E d \in Extremes(JitterDelay(20000, 50, 20)) : minimalDelay' = d
       ELSE minimalDelay' = 0
    /\ successiveErrors' = 0
    /\ syncPc' = "loop"
    /\ noCalls
    /\ UNCHANGED <<syncNow, syncCtxDone, disabledUntil, disableReason, minimalDeadline,
                   syncMethods, stepIdx, lastErr, executed, gateReads, factsByKey,
                   dupUntil, connector>>
    /\ UNCHANGED outsideSync

\* the loop test of Run and the entry in WaitDeadline
SyncLoopTest ==
    /\ syncPc = "loop"
    /\ IF syncCtxDone
       THEN syncPc' = "returned" /\ UNCHANGED minimalDeadline
       ELSE syncPc' = "wait" /\ minimalDeadline' = syncNow + minimalDelay
    /\ noCalls
    /\ UNCHANGED <<syncNow, syncCtxDone, disabledUntil, disableReason, successiveErrors,
                   minimalDelay, syncMethods, stepIdx, lastErr, executed, gateReads,
                   factsByKey, dupUntil, connector>>
    /\ UNCHANGED outsideSync

\* common.WaitDeadline returns: the deadline it has just read and
\* the minimal deadline are passed, or ctx is cancelled
WaitDeadline ==
    /\ syncPc = "wait"
    /\ \/ syncCtxDone
       \/ ~(syncNow < disabledUntil) /\ ~(syncNow < minimalDeadline)
    /\ syncPc' = IF syncCtxDone THEN "returned" ELSE "runOnce"
    /\ noCalls
    /\ UNCHANGED <<syncNow, syncCtxDone, disabledUntil, disableReason, successiveErrors,
                   minimalDelay, minimalDeadline, syncMethods, stepIdx, lastErr, executed,
                   gateReads, factsByKey, dupUntil, connector>>
    /\ UNCHANGED outsideSync

\* runOnce after syncToPerform gave methods (lines 388-396)
runOnceWith(methods) ==
    /\ syncPc = "runOnce"
    /\ syncMethods' = methods
    /\ stepIdx' = 0
    /\ lastErr' = "nil"
    /\ executed' = <<>>
    /\ gateReads' = <<>>
    /\ dupUntil' = ZeroTime
    /\ syncPc' = IF DOMAIN methods = {} THEN "returned runOnce" ELSE "checkDuplicated"
    /\ noCalls
    /\ UNCHANGED <<syncNow, syncCtxDone, disabledUntil, disableReason, successiveErrors,
                   minimalDelay, minimalDeadline, factsByKey, connector>>

\* runOnce up to checkDuplicated, for a registered agent
runOnce(fullSync, factsUpdated, discoveryUpdated, forceSync) ==
    LET methods == syncToPerform(fullSync, factsUpdated, discoveryUpdated, FALSE, forceSync)
    IN  /\ runOnceWith(methods)
        /\ UNCHANGED outsideSync

\* checkDuplicated up to the call of option.DisableCallback
checkDuplicated(fetch) ==
    /\ syncPc = "checkDuplicated"
    /\ IF fetch.err
       THEN /\ lastErr' = "factsUpdateList"
            /\ syncPc' = "returned runOnce"
            /\ noCalls
            /\ UNCHANGED <<factsByKey, disabledUntil, disableReason, dupUntil>>
       ELSE /\ factsByKey' = fetch.facts
            /\ lastCallback' = NoCallbackCall
            /\ IF duplicated(factsByKey, fetch.facts)
               THEN \E d \in Extremes(JitterDelay(900000, 5, 900)) :
                    LET s == disable(syncNow + d, DisableDuplicatedAgent, TRUE)
                    IN  /\ disabledUntil' = s.disabledUntil
                        /\ disableReason' = s.disableReason
                        /\ lastDisable' = DisableCall(syncNow + d, DisableDuplicatedAgent, TRUE)
                        /\ dupUntil' = syncNow + d
                        /\ syncPc' = "DisableCallback"
                        /\ UNCHANGED lastErr
               ELSE /\ lastDisable' = NoDisableCall
                    /\ stepIdx' = 1
                    /\ syncPc' = "gate"
                    /\ UNCHANGED <<disabledUntil, disableReason, dupUntil, lastErr>>
    /\ IF syncPc' = "gate" THEN TRUE ELSE UNCHANGED stepIdx
    /\ UNCHANGED <<syncNow, syncCtxDone, successiveErrors, minimalDelay, minimalDeadline,
                   syncMethods, executed, gateReads, connector>>
    /\ UNCHANGED outsideSync

\* the rest of checkDuplicated: the callback, and the error returned
DuplicatedCallback ==
    /\ syncPc = "DisableCallback"
    /\ CallDisableCallback(DisableDuplicatedAgent, dupUntil)
    /\ lastErr' = "duplicated"
    /\ syncPc' = "returned runOnce"
    /\ UNCHANGED <<syncNow, syncCtxDone, successiveErrors, minimalDelay, minimalDeadline,
                   syncMethods, stepIdx, executed, gateReads, factsByKey, dupUntil>>
    /\ UNCHANGED outsideSync

\* the loop of runOnce moves to the next step, or ends
nextStep ==
    IF stepIdx = Len(syncStep)
    THEN syncPc' = "returned runOnce" /\ UNCHANGED stepIdx
    ELSE syncPc' = "gate" /\ stepIdx' = stepIdx + 1

\* a gate that lets every step through
gateAlwaysOpen == TRUE

\* the gate of runOnce: time.Now().Before(until) is false
gateOpen == ~(syncNow < disabledUntil)

\* the loop of runOnce up to the call of the step's method: ctx,
\* then the gate
StepGate ==
    LET open == gateOpen
    IN  /\ syncPc = "gate"
        /\ IF syncCtxDone
           THEN /\ syncPc' = "returned runOnce"
                /\ UNCHANGED <<stepIdx, lastErr, gateReads>>
           ELSE /\ gateReads' = Append(gateReads, [step |-> syncStep[stepIdx], now |-> syncNow,
                                                      until |-> disabledUntil])
                /\ IF ~open
                   THEN /\ lastErr' = IF lastErr = "nil" THEN "disabled" ELSE lastErr
                        /\ syncPc' = "returned runOnce"
                        /\ UNCHANGED stepIdx
                   ELSE /\ UNCHANGED lastErr
                        /\ IF syncStep[stepIdx] \in DOMAIN syncMethods
                           THEN syncPc' = "method" /\ UNCHANGED stepIdx
                           ELSE nextStep
        /\ noCalls
        /\ UNCHANGED <<syncNow, syncCtxDone, disabledUntil, disableReason, successiveErrors,
                       minimalDelay, minimalDeadline, syncMethods, executed, factsByKey,
                       dupUntil, connector>>
        /\ UNCHANGED outsideSync

\* the method of the step returns
StepMethod(ok) ==
    /\ syncPc = "method"
    /\ executed' = Append(executed, syncStep[stepIdx])
    /\ lastErr' = IF ok THEN lastErr ELSE "method"
    /\ nextStep
    /\ noCalls
    /\ UNCHANGED <<syncNow, syncCtxDone, disabledUntil, disableReason, successiveErrors,
                   minimalDelay, minimalDeadline, syncMethods, gateReads, factsByKey,
                   dupUntil, connector>>
    /\ UNCHANGED outsideSync

\* Run after runOnce returned: the back-off on an error, the new
\* minimalDelay else; what runOnce held is gone
runOnceReturned(maxErrors) ==
    /\ syncPc = "returned runOnce"
    /\ IF lastErr # "nil"
       THEN /\ successiveErrors < maxErrors
            /\ successiveErrors' = successiveErrors + 1
            /\ \E d \in Extremes(backoffDelay(successiveErrors + 1)) :
                LET s == disable(syncNow + d, DisableTooManyErrors, FALSE)
                IN  /\ disabledUntil' = s.disabledUntil
                    /\ disableReason' = s.disableReason
                    /\ lastDisable' = DisableCall(syncNow + d, DisableTooManyErrors, FALSE)
            /\ UNCHANGED minimalDelay
       ELSE /\ \E d \in Extremes(JitterDelay(15000, 5, 15)) : minimalDelay' = d
            /\ successiveErrors' = 0
            /\ lastDisable' = NoDisableCall
            /\ UNCHANGED <<disabledUntil, disableReason>>
    /\ lastCallback' = NoCallbackCall
    /\ syncPc' = "loop"
    /\ syncMethods' = EmptyMap
    /\ stepIdx' = 0
    /\ lastErr' = "nil"
    /\ executed' = <<>>
    /\ gateReads' = <<>>
    /\ dupUntil' = ZeroTime
    /\ UNCHANGED <<syncNow, syncCtxDone, minimalDeadline, factsByKey, connector>>
    /\ UNCHANGED outsideSync

RunOnceReturned == runOnceReturned(MaxSuccessiveErrors)

\* failed iterations in a row when only the back-off is followed
MaxBackoffErrors == 17

\* the same with more failed iterations in a row
BackoffReturned == runOnceReturned(MaxBackoffErrors)

\* an iteration as a whole, from the loop test of Run to the return
\* of runOnce, with its error
Iteration(err) ==
    /\ syncPc = "loop"
    /\ ~syncCtxDone
    /\ lastErr' = err
    /\ syncPc' = "returned runOnce"
    /\ noCalls
    /\ UNCHANGED <<syncNow, syncCtxDone, disabledUntil, disableReason, successiveErrors,
                   minimalDelay, minimalDeadline, syncMethods, stepIdx, executed, gateReads,
                   factsByKey, dupUntil, connector>>
    /\ UNCHANGED outsideSync

\* another user of the connector calls Connector.disableCallback
ConnectorDisable(reason, d) ==
    /\ CallDisableCallback(reason, syncNow + d)
    /\ UNCHANGED <<syncNow, syncPc, syncCtxDone, successiveErrors, minimalDelay,
                   minimalDeadline, syncMethods, stepIdx, lastErr, executed, gateReads,
                   factsByKey, dupUntil>>
    /\ UNCHANGED outsideSync

\* s.ctx is cancelled
CancelSync ==
    /\ ~syncCtxDone
    /\ syncCtxDone' = TRUE
    /\ noCalls
    /\ UNCHANGED <<syncNow, syncPc, disabledUntil, disableReason, successiveErrors,
                   minimalDelay, minimalDeadline, syncMethods, stepIdx, lastErr, executed,
                   gateReads, factsByKey, dupUntil, connector>>
    /\ UNCHANGED outsideSync

\* time passes
SyncTime ==
    /\ syncNow + SyncTick <= MaxSyncClock
    /\ syncNow' = syncNow + SyncTick
    /\ noCalls
    /\ UNCHANGED <<syncPc, syncCtxDone, disabledUntil, disableReason, successiveErrors,
                   minimalDelay, minimalDeadline, syncMethods, stepIdx, lastErr, executed,
                   gateReads, factsByKey, dupUntil, connector>>
    /\ UNCHANGED outsideSync

\* the cache of a registered agent: its fqdn and its address
CachedFacts == Facts(AgentFact("f1", "host"), AgentFact("f2", "10.0.0.1"), NoFact)

\* synchronizer.New and bleemeo.Connector before Run
InitSync ==
    /\ syncNow = SyncEpoch
    /\ syncPc = "start"
    /\ syncCtxDone = FALSE
    /\ disabledUntil = ZeroTime
    /\ disableReason = NoReason
    /\ successiveErrors = 0
    /\ minimalDelay = 0
    /\ minimalDeadline = ZeroTime
    /\ syncMethods = EmptyMap
    /\ stepIdx = 0
    /\ lastErr = "nil"
    /\ executed = <<>>
    /\ gateReads = <<>>
    /\ factsByKey = CachedFacts
    /\ dupUntil = ZeroTime
    /\ connector = [disabledUntil |-> ZeroTime, disableReason |-> NoReason, l |-> "free"]
    /\ lastDisable = NoDisableCall
    /\ lastCallback = NoCallbackCall

(* ------------------------------------------------------------------ *)
(* state.State: Save, Set and Delete over the file at path and the     *)
(* file at path + ".tmp"; Synchronizer.register, which uses Set.       *)
(* ------------------------------------------------------------------ *)
\* no file at the path
NoFile == [exists |-> FALSE, complete |-> FALSE, doc |-> EmptyMap]

\* a file holding the whole JSON document of doc
Document(doc) == [exists |-> TRUE, complete |-> TRUE, doc |-> doc]

\* a file just truncated, or holding the beginning of a document
Truncated == [exists |-> TRUE, complete |-> FALSE, doc |-> EmptyMap]

\* the users of the State: register, and the cache of the connector
StateCallers == {"register", "cache"}

\* a caller outside Save, Set and Delete
Outside == [pc |-> "idle", op |-> "none", err |-> FALSE]

\* an s.l.Lock() that does not wait
lockAlways(c) == TRUE

\* s.l.Lock() returns for caller c
lock(c) == stLock = "nobody"

\* what register asks of the State at each of its positions
regRequest ==
    IF regPc = "check state" THEN <<"Set", "agent_uuid", "">>
    ELSE IF regPc = "save id" THEN <<"Set", "agent_uuid", agentID>>
    ELSE IF regPc = "save password" THEN <<"Set", "password", "generated">>
    ELSE <<"none", "", "">>

\* Save, Set and Delete up to save: the lock, and the change of data.
\* Delete of a missing key returns at once.
StateCall(c, op, key, value) ==
    /\ stCallers[c].pc = "idle"
    /\ lock(c)
    /\ IF c = "register" THEN <<op, key, value>> = regRequest ELSE op # "none"
    /\ stLock' = c
    /\ stData' = IF op = "Set" THEN MapSet(stData, key, value)
                 ELSE IF op = "Delete" THEN [k \in DOMAIN stData \ {key} |-> stData[k]]
                 ELSE stData
    /\ stCallers' = [stCallers EXCEPT ![c] =
            [pc |-> IF op = "Delete" /\ key \notin DOMAIN stData THEN "return" ELSE "saveTo",
             op |-> op, err |-> FALSE]]
    /\ UNCHANGED <<stFiles, regPc, agentID, posted, regSaved>>
    /\ UNCHANGED outsideStore

\* saveTo: os.OpenFile of the .tmp file with O_CREATE|O_TRUNC
saveToOpen(c, ok) ==
    /\ stCallers[c].pc = "saveTo"
    /\ IF ok
       THEN /\ stFiles' = [stFiles EXCEPT !.tmp = Truncated]
            /\ stCallers' = [stCallers EXCEPT ![c].pc = "Encode"]
       ELSE /\ stCallers' = [stCallers EXCEPT ![c].pc = "return", ![c].err = TRUE]
            /\ UNCHANGED stFiles
    /\ UNCHANGED <<stData, stLock, regPc, agentID, posted, regSaved>>
    /\ UNCHANGED outsideStore

\* saveTo: encoder.Encode(s.data); on an error the file is closed
\* with what was written
saveToEncode(c, ok) ==
    /\ stCallers[c].pc = "Encode"
    /\ IF ok
       THEN /\ stFiles' = [stFiles EXCEPT !.tmp = Document(stData)]
            /\ stCallers' = [stCallers EXCEPT ![c].pc = "Sync"]
       ELSE /\ stCallers' = [stCallers EXCEPT ![c].pc = "return", ![c].err = TRUE]
            /\ UNCHANGED stFiles
    /\ UNCHANGED <<stData, stLock, regPc, agentID, posted, regSaved>>
    /\ UNCHANGED outsideStore

\* saveTo: w.Sync(), whose error is dropped, and the deferred Close
saveToSync(c) ==
    /\ stCallers[c].pc = "Sync"
    /\ stCallers' = [stCallers EXCEPT ![c].pc = "Rename"]
    /\ UNCHANGED <<stData, stFiles, stLock, regPc, agentID, posted, regSaved>>
    /\ UNCHANGED outsideStore

\* save: os.Rename of the .tmp file over the state file
saveRename(c, ok) ==
    /\ stCallers[c].pc = "Rename"
    /\ IF ok /\ stFiles.tmp.exists
       THEN /\ stFiles' = [state |-> stFiles.tmp, tmp |-> NoFile]
            /\ regSaved' = (regSaved \/ c = "register")
            /\ stCallers' = [stCallers EXCEPT ![c].pc = "return"]
       ELSE /\ stCallers' = [stCallers EXCEPT ![c].pc = "return", ![c].err = TRUE]
            /\ UNCHANGED <<stFiles, regSaved>>
    /\ UNCHANGED <<stData, stLock, regPc, agentID, posted>>
    /\ UNCHANGED outsideStore

\* what the caller gets: Save returns the error of save, Set and
\* Delete log it and return nil
returned(op, err) == IF op = "Save" THEN err ELSE FALSE

\* Save, Set or Delete returns and unlocks; register goes on with
\* what Set returned
StateReturn(c) ==
    /\ stCallers[c].pc = "return"
    /\ stLock' = IF stLock = c THEN "nobody" ELSE stLock
    /\ stCallers' = [stCallers EXCEPT ![c] = Outside]
    /\ IF c = "register"
       THEN regPc' = IF returned(stCallers[c].op, stCallers[c].err) THEN "failed"
                     ELSE IF regPc = "check state" THEN "PostAuth"
                     ELSE IF regPc = "save id" THEN "save password"
                     ELSE "registered"
       ELSE UNCHANGED regPc
    /\ UNCHANGED <<stData, stFiles, agentID, posted, regSaved>>
    /\ UNCHANGED outsideStore

\* register up to its first Set: the facts and the fqdn
register(ok) ==
    /\ regPc = "start"
    /\ regPc' = IF ok THEN "check state" ELSE "failed"
    /\ UNCHANGED <<stData, stFiles, stLock, stCallers, agentID, posted, regSaved>>
    /\ UNCHANGED outsideStore

\* register: s.client.PostAuth and the status code
PostAuth(statusCode) ==
    /\ regPc = "PostAuth"
    /\ posted' = TRUE
    /\ IF statusCode = 201
       THEN agentID' = "uuid" /\ regPc' = "save id"
       ELSE regPc' = "failed" /\ UNCHANGED agentID
    /\ UNCHANGED <<stData, stFiles, stLock, stCallers, regSaved>>
    /\ UNCHANGED outsideStore

\* runOnce of the next iteration (part_006 lines 381-386): register is
\* called again when the agent has no id
runOnceRegister ==
    /\ regPc = "failed"
    /\ agentID = ""
    /\ regPc' = "start"
    /\ UNCHANGED <<stData, stFiles, stLock, stCallers, agentID, posted, regSaved>>
    /\ UNCHANGED outsideStore

\* state.Load of a missing file, and an agent not registered
InitStore ==
    /\ stData = EmptyMap
    /\ stFiles = [state |-> NoFile, tmp |-> NoFile]
    /\ stLock = "nobody"
    /\ stCallers = [c \in StateCallers |-> Outside]
    /\ regPc = "start"
    /\ agentID = ""
    /\ posted = FALSE
    /\ regSaved = FALSE

(* ------------------------------------------------------------------ *)
(* facts.NetstatProvider: decodeNetstatFile, then the live             *)
(* connections, both through addAddress.                               *)
(* ------------------------------------------------------------------ *)
MaxAddresses == 4           \* calls of addAddress in one Netstat

listenAddress(network, address, port) ==
    [network |-> network, address |-> address, port |-> port]

\* strings.HasPrefix(address, "127.") over the addresses of the model
has127Prefix(address) == address \in {"127.0.0.1", "127.0.0.53"}

\* strings.Contains(address, ":") over the addresses of the model
containsColon(address) == address \in {"::", "::1", "fe80::1"}

\* addAddress on tcp6 and udp6: the address and the network as IPv4
projected(newAddr) ==
    IF newAddr.network \in {"tcp6", "udp6"}
    THEN [newAddr EXCEPT
            !.address = IF @ = "::" THEN "0.0.0.0" ELSE IF @ = "::1" THEN "127.0.0.1" ELSE @,
            !.network = SubSeq(@, 1, 3)]
    ELSE newAddr

\* the loop of addAddress from index i, for an address already
\* projected: the addresses, or "dropped" on an address that does
\* not split, and whether a duplicate was found
RECURSIVE addLoop(_, _, _)
addLoop(addresses, newAddr, i) ==
    IF i > Len(addresses) THEN [addresses |-> addresses, duplicate |-> FALSE]
    ELSE IF addresses[i].network # newAddr.network THEN addLoop(addresses, newAddr, i + 1)
    ELSE IF containsColon(addresses[i].address)
         THEN [addresses |-> addresses, duplicate |-> TRUE]
    ELSE IF addresses[i].port = newAddr.port
         THEN [addresses |-> IF has127Prefix(newAddr.address)
                             THEN [addresses EXCEPT ![i] = newAddr]
                             ELSE addresses,
               duplicate |-> TRUE]
    ELSE addLoop(addresses, newAddr, i + 1)

\* an addAddress that keeps the first address of a network and port
addAddressKeepFirst(addresses, newAddr) ==
    LET p == projected(newAddr)
    IN  IF \E i \in 1..Len(addresses) :
              addresses[i].network = p.network /\ addresses[i].port = p.port
        THEN addresses
        ELSE Append(addresses, p)

\* addAddress
addAddress(addresses, newAddr) ==
    LET p == projected(newAddr)
        r == addLoop(addresses, p, 1)
    IN  IF newAddr.network = "unix" THEN Append(addresses, newAddr)
        ELSE IF containsColon(p.address) THEN addresses
        ELSE IF r.duplicate THEN r.addresses
        ELSE Append(r.addresses, p)

\* the addresses of a pid in the map: nil is the empty list
addressesOf(pid) == IF pid \in DOMAIN netstat THEN netstat[pid] ELSE <<>>

\* the calls of addAddress made so far
addCalls ==
    LET RECURSIVE sum(_)
        sum(P) == IF P = {} THEN 0
                  ELSE LET p == CHOOSE p \in P : TRUE
                       IN  Cardinality(candidates[p]) + sum(P \ {p})
    IN  sum(DOMAIN candidates)

\* one call of addAddress for a pid, and the map assignment
addFor(pid, newAddr) ==
    /\ netstat' = MapSet(netstat, pid, addAddress(addressesOf(pid), newAddr))
    /\ candidates' = MapSet(candidates, pid,
                            (IF pid \in DOMAIN candidates THEN candidates[pid] ELSE {})
                                \cup {newAddr})

\* decodeNetstatFile: a line of the file that matches
DecodeLine(pid, newAddr) ==
    /\ ~netstatLive
    /\ addCalls < MaxAddresses
    /\ newAddr \notin (IF pid \in DOMAIN candidates THEN candidates[pid] ELSE {})
    /\ addFor(pid, newAddr)
    /\ UNCHANGED netstatLive
    /\ UNCHANGED outsideNetstat

\* decodeNetstatFile has returned
FileDecoded ==
    /\ ~netstatLive
    /\ netstatLive' = TRUE
    /\ UNCHANGED <<netstat, candidates>>
    /\ UNCHANGED outsideNetstat

\* Netstat: a live connection in state LISTEN, tcp or udp
LiveConnection(pid, newAddr) ==
    /\ netstatLive
    /\ addCalls < MaxAddresses
    /\ newAddr.network # "unix"
    /\ newAddr \notin (IF pid \in DOMAIN candidates THEN candidates[pid] ELSE {})
    /\ addFor(pid, newAddr)
    /\ UNCHANGED netstatLive
    /\ UNCHANGED outsideNetstat

\* Netstat before it reads the file
InitNetstat ==
    /\ netstat = EmptyMap
    /\ netstatLive = FALSE
    /\ candidates = EmptyMap

(* ------------------------------------------------------------------ *)
(* registry.labeledGatherer: newLabeledGatherer and mergeLabels.       *)
(* Label names are numbered in their order as strings; the names      *)
(* with model.ReservedLabelPrefix come first ("_" sorts before the     *)
(* letters).                                                           *)
(* ------------------------------------------------------------------ *)
MaxLabelName == 4           \* label names are 1..MaxLabelName
ReservedNames == 1          \* names 1..ReservedNames start with "__"

\* dto.LabelPair
LabelPair(name, value) == [name |-> name, value |-> value]

\* strings.HasPrefix(name, model.ReservedLabelPrefix)
hasReservedPrefix(name) == name <= ReservedNames

\* newLabeledGatherer: the labels kept of extraLabels
RECURSIVE newLabeledGatherer(_)
newLabeledGatherer(extraLabels) ==
    IF extraLabels = <<>> THEN <<>>
    ELSE IF hasReservedPrefix(Head(extraLabels).name)
         THEN newLabeledGatherer(Tail(extraLabels))
         ELSE <<Head(extraLabels)>> \o newLabeledGatherer(Tail(extraLabels))

\* the inner loop of mergeLabels: the labels of a before bLabel are
\* appended; the result and aIndex
RECURSIVE copyBefore(_, _, _, _)
copyBefore(a, aIndex, bLabel, result) ==
    IF aIndex <= Len(a) /\ a[aIndex].name < bLabel.name
    THEN copyBefore(a, aIndex + 1, bLabel, Append(result, a[aIndex]))
    ELSE [result |-> result, aIndex |-> aIndex]

\* the loop of mergeLabels over b from index bIndex, then the rest
\* of a; indexes are counted from 1
RECURSIVE mergeLoopLabels(_, _, _, _, _)
mergeLoopLabels(a, b, aIndex, bIndex, result) ==
    IF bIndex > Len(b)
    THEN result \o SubSeq(a, aIndex, Len(a))
    ELSE LET c == copyBefore(a, aIndex, b[bIndex], result)
             skip == IF c.aIndex <= Len(a) /\ a[c.aIndex].name = b[bIndex].name
                     THEN c.aIndex + 1 ELSE c.aIndex
         IN  mergeLoopLabels(a, b, skip, bIndex + 1, Append(c.result, b[bIndex]))

\* a merge in which the value of a wins
mergeLabelsFirstWins(a, b) ==
    LET keep == SelectSeq(b, LAMBDA l : \A i \in 1..Len(a) : a[i].name # l.name)
    IN  mergeLoopLabels(a, keep, 1, 1, <<>>)

\* mergeLabels
mergeLabels(a, b) == mergeLoopLabels(a, b, 1, 1, <<>>)

\* labeledGatherer.GatherWithState on one sample: its labels after
\* the gather, for a gatherer made with extraLabels
GatherLabeled(a, extraLabels) ==
    LET labels == newLabeledGatherer(extraLabels)
    IN  /\ labeled' = [called |-> TRUE, a |-> a, extraLabels |-> extraLabels,
                       Label |-> IF Len(labels) = 0 THEN a ELSE mergeLabels(a, labels)]
        /\ UNCHANGED outsideLabeled

\* no gather yet
InitLabeled ==
    labeled = [called |-> FALSE, a |-> <<>>, extraLabels |-> <<>>, Label |-> <<>>]

(* ------------------------------------------------------------------ *)
(* registry.Gatherers: GatherWithState.                                *)
(* ------------------------------------------------------------------ *)
NumGatherers == 3           \* len(gs)

\* the family names, in their order
FamilyNames == <<"go_info", "up">>

\* dto.MetricFamily; Metric is the list of its metrics, each named
\* after the gatherer it comes from
MetricFamily(name, help, type, metric) ==
    [Name |-> name, Help |-> help, Type |-> type, Metric |-> metric]

\* no entry of metricFamiliesByName
NoFamily == MetricFamily("", "", "", <<>>)

\* the error of a gatherer, and the error of the merge loop
GatherError(g) == [gatherer |-> g]

TypeError(name, type, should) == [Name |-> name, Type |-> type, should |-> should]

\* one turn of the loop over mfs: metricFamiliesByName and errs
\* after mf; an existing family keeps its help text if firstHelp
mergeFamily(byName, errors, mf, firstHelp) ==
    LET existingMF == byName[mf.Name]
    IN  IF existingMF # NoFamily
        THEN IF existingMF.Type # mf.Type
             THEN [byName |-> byName,
                   errs |-> Append(errors, TypeError(mf.Name, mf.Type, existingMF.Type))]
             ELSE [byName |-> [byName EXCEPT ![mf.Name] =
                                  MetricFamily(mf.Name, IF firstHelp THEN existingMF.Help ELSE mf.Help,
                                               existingMF.Type,
                                               existingMF.Metric \o mf.Metric)],
                   errs |-> errors]
        ELSE [byName |-> [byName EXCEPT ![mf.Name] = mf], errs |-> errors]

\* the loop over mfs from index i
RECURSIVE mergeFamiliesFrom(_, _, _, _, _)
mergeFamiliesFrom(list, i, byName, errors, firstHelp) ==
    IF i > Len(list) THEN [byName |-> byName, errs |-> errors]
    ELSE LET r == mergeFamily(byName, errors, list[i], firstHelp)
         IN  mergeFamiliesFrom(list, i + 1, r.byName, r.errs, firstHelp)

emptyByName == [n \in {FamilyNames[i] : i \in 1..Len(FamilyNames)} |-> NoFamily]

\* a merge in which the last help text wins
mergeFamiliesLastHelp(list, errors) ==
    mergeFamiliesFrom(list, 1, emptyByName, errors, FALSE)

\* the merge by name of GatherWithState
mergeFamilies(list, errors) ==
    mergeFamiliesFrom(list, 1, emptyByName, errors, TRUE)

\* promGatherers.Gather() over the one slice of families, none of
\* them holding a metric twice: the families sorted by name
RECURSIVE sortedFamilies(_, _)
sortedFamilies(byName, i) ==
    IF i > Len(FamilyNames) THEN <<>>
    ELSE (IF byName[FamilyNames[i]] # NoFamily THEN <<byName[FamilyNames[i]]>> ELSE <<>>)
         \o sortedFamilies(byName, i + 1)

\* Gatherers.GatherWithState is called: the goroutines are started
GatherersGatherWithState ==
    /\ gsPc \in {"idle", "returned"}
    /\ gsPc' = "gathering"
    /\ gsDone' = {}
    /\ mfs' = <<>>
    /\ errs' = <<>>
    /\ sortedResult' = <<>>
    /\ UNCHANGED outsideGatherers

\* the goroutine of gatherer g: its gather returned currentMFs and
\* err, which are appended under the mutex
GatherGoroutine(g, currentMFs, err) ==
    /\ gsPc = "gathering"
    /\ g \notin gsDone
    /\ errs' = IF err THEN Append(errs, GatherError(g)) ELSE errs
    /\ mfs' = mfs \o currentMFs
    /\ gsDone' = gsDone \cup {g}
    /\ UNCHANGED <<gsPc, sortedResult>>
    /\ UNCHANGED outsideGatherers

\* wg.Wait() returned: the merge by name, the sort and the return
GatherersReturn ==
    /\ gsPc = "gathering"
    /\ gsDone = 1..NumGatherers
    /\ LET r == mergeFamilies(mfs, errs)
       IN  /\ sortedResult' = sortedFamilies(r.byName, 1)
           /\ errs' = r.errs
    /\ gsPc' = "returned"
    /\ UNCHANGED <<gsDone, mfs>>
    /\ UNCHANGED outsideGatherers

\* no call of GatherWithState yet
InitGatherers ==
    /\ gsPc = "idle"
    /\ gsDone = {}
    /\ mfs = <<>>
    /\ errs = <<>>
    /\ sortedResult = <<>>

(* ------------------------------------------------------------------ *)
(* facts.ProcessProvider: updateProcesses. Times are in milliseconds.  *)
(* ------------------------------------------------------------------ *)
ProcEpoch == 10000          \* t0 of the update
startMargin == 20           \* onlyStartedBefore is t0 - 20 ms
recentAge == 3000           \* 3 * time.Second

\* facts.Process
Process(PID, CreateTime, ContainerID, ContainerName) ==
    [PID |-> PID, CreateTime |-> CreateTime,
     ContainerID |-> ContainerID, ContainerName |-> ContainerName]

\* a pid that is not in a map of processes
NoProcess == Process(0, 0, "", "")

\* containerIDFromCGroupData over the submatches of the cgroup
\* data, containerID being the ID found so far
RECURSIVE cgroupLoop(_, _)
cgroupLoop(submatches, containerID) ==
    IF submatches = <<>> THEN containerID
    ELSE IF containerID = "" THEN cgroupLoop(Tail(submatches), Head(submatches))
    ELSE IF containerID # Head(submatches) THEN ""
    ELSE cgroupLoop(Tail(submatches), containerID)

containerIDFromCGroupData(data) == cgroupLoop(data, "")

\* the merge of the processes of the containers with the ones of
\* psutil: NoProcess for a pid in neither list
mergeProcesses(dockerProcesses, psProcesses, t0) ==
    [pid \in DOMAIN psProcesses |->
        LET pOld == dockerProcesses[pid]
            p == psProcesses[pid]
        IN  IF p = NoProcess \/ p.CreateTime > t0 - startMargin THEN pOld
            ELSE IF pOld # NoProcess
            THEN Process(pid, p.CreateTime, pOld.ContainerID, pOld.ContainerName)
            ELSE p]

\* a cgroup step that drops the process of an unknown container
\* whatever its age
cgroupStepAnyAge(p, candidateID, id2name, at) ==
    IF p = NoProcess \/ p.ContainerID # "" THEN p
    ELSE IF candidateID \in DOMAIN id2name
    THEN Process(p.PID, p.CreateTime, candidateID, id2name[candidateID])
    ELSE IF candidateID # "" THEN NoProcess
    ELSE p

\* the cgroup step of updateProcesses on the process p of the merged
\* map, at being the time of the age test: the process kept, or
\* NoProcess when it is deleted
cgroupStep(p, candidateID, id2name, at) ==
    IF p = NoProcess \/ p.ContainerID # "" THEN p
    ELSE IF candidateID \in DOMAIN id2name
    THEN Process(p.PID, p.CreateTime, candidateID, id2name[candidateID])
    ELSE IF candidateID # "" /\ at - p.CreateTime < recentAge THEN NoProcess
    ELSE p

\* ProcessProvider.updateProcesses: dockerProcesses and psProcesses
\* are the two lists, reachable says that containerID2Name returned
\* no error, cgroup is the cgroup data of each pid, elapsed the time
\* from t0 to the age test, failed an error of a lister or of
\* baseTopinfo
updateProcesses(dockerProcesses, psProcesses, reachable, id2name, cgroup, elapsed, failed) ==
    LET t0 == ProcEpoch
        merged == mergeProcesses(dockerProcesses, psProcesses, t0)
        newProcessesMap ==
            IF reachable
            THEN [pid \in DOMAIN merged |->
                     cgroupStep(merged[pid], containerIDFromCGroupData(cgroup[pid]),
                                id2name, t0 + elapsed)]
            ELSE merged
    IN  /\ processes' = IF failed THEN processes ELSE newProcessesMap
        /\ lastUpdate' = IF failed
                         THEN [called |-> TRUE, err |-> TRUE, reachable |-> FALSE,
                               merged |-> <<>>, id2name |-> <<>>, cgroup |-> <<>>, now |-> 0]
                         ELSE [called |-> TRUE, err |-> FALSE, reachable |-> reachable,
                               merged |-> merged, id2name |-> id2name, cgroup |-> cgroup,
                               now |-> t0 + elapsed]
        /\ UNCHANGED outsideProcess

\* NewProcess: no process known, no update yet
InitProcess ==
    /\ processes = <<>>
    /\ lastUpdate = [called |-> FALSE, err |-> FALSE, reachable |-> FALSE,
                     merged |-> <<>>, id2name |-> <<>>, cgroup |-> <<>>, now |-> 0]

(* ------------------------------------------------------------------ *)
(* statusState.Update called on the state it returned last.            *)
(* ------------------------------------------------------------------ *)
\* s.Update(newStatus, period, t) on the state s of the last call
StatusUpdate(newStatus, period, t) ==
    /\ updated' = [called |-> TRUE, prev |-> updated.s, newStatus |-> newStatus,
                   period |-> period, now |-> t,
                   s |-> Update(updated.s, newStatus, period, t)]
    /\ UNCHANGED outsideUpdated

\* the zero statusState, no call yet
InitUpdated ==
    updated = [called |-> FALSE, prev |-> ZeroState, newStatus |-> StatusUnset,
               period |-> 0, now |-> 0, s |-> ZeroState]

(* ------------------------------------------------------------------ *)
(* pusher.PushPoints step by step, called from several goroutines.     *)
(* ------------------------------------------------------------------ *)
MaxPushCalls == 3           \* calls of PushPoints

\* the goroutines that call PushPoints
Pushers == {1, 2}

\* a goroutine outside PushPoints
NoPush == [pc |-> "idle", call |-> 0, points |-> <<>>, i |-> 0, result |-> <<>>]

\* a mutex any goroutine gets at once
registryLockAlways(g) == TRUE

\* p.registry.l.Lock() returns for goroutine g
registryLock(g) == regL = 0

\* what the steps of PushPoints leave alone
pushingFrame == <<now, configVars, lastInput, obs, runVars, outsidePushing>>

\* goroutine g calls PushPoints(points)
PusherPushPoints(g, points) ==
    /\ pusher[g].pc = "idle"
    /\ pushCalls < MaxPushCalls
    /\ pushCalls' = pushCalls + 1
    /\ pusher' = [pusher EXCEPT ![g] =
                     [pc |-> "Lock", call |-> pushCalls + 1, points |-> points,
                      i |-> 1, result |-> <<>>]]
    /\ UNCHANGED <<regL, lockOrder, applied, sinkCalls, states, downstream>>
    /\ UNCHANGED pushingFrame

\* line 449: the lock is taken
PusherLock(g) ==
    /\ pusher[g].pc = "Lock"
    /\ registryLock(g)
    /\ regL' = g
    /\ lockOrder' = Append(lockOrder, pusher[g].call)
    /\ pusher' = [pusher EXCEPT ![g].pc = "loop"]
    /\ UNCHANGED <<pushCalls, applied, sinkCalls, states, downstream>>
    /\ UNCHANGED pushingFrame

\* lines 453-468: one turn of the loop
PusherLoop(g) ==
    /\ pusher[g].pc = "loop"
    /\ pusher[g].i <= Len(pusher[g].points)
    /\ LET point == pusher[g].points[pusher[g].i]
           key == MetricNameItem(point.name, point.item)
           r == pushLoop(<<point>>, 1, states, pusher[g].result, thresholds,
                         thresholdsAllItem, defaultSoftPeriod, softPeriods, now)
       IN  /\ states' = r.states
           /\ pusher' = [pusher EXCEPT ![g].result = r.points, ![g].i = @ + 1]
           /\ applied' = IF ~IsSet(point.status)
                            /\ ~IsZero(getThreshold(thresholds, thresholdsAllItem, key))
                         THEN Append(applied, [key |-> key, call |-> pusher[g].call,
                                               index |-> pusher[g].i])
                         ELSE applied
    /\ UNCHANGED <<regL, pushCalls, lockOrder, sinkCalls, downstream>>
    /\ UNCHANGED pushingFrame

\* line 470: the loop is over, the lock is released
PusherUnlock(g) ==
    /\ pusher[g].pc = "loop"
    /\ pusher[g].i > Len(pusher[g].points)
    /\ regL' = 0
    /\ pusher' = [pusher EXCEPT ![g].pc = "PushPoints"]
    /\ UNCHANGED <<pushCalls, lockOrder, applied, sinkCalls, states, downstream>>
    /\ UNCHANGED pushingFrame

\* line 471: p.pusher.PushPoints(result); with callback the sink
\* calls Registry.GetThreshold before it returns
PusherDownstream(g, callback) ==
    /\ pusher[g].pc = "PushPoints"
    /\ sinkCalls' = Append(sinkCalls, [call |-> pusher[g].call, held |-> regL = g])
    /\ downstream' = pusher[g].result
    /\ pusher' = [pusher EXCEPT ![g] = IF callback THEN [@ EXCEPT !.pc = "GetThreshold"]
                                       ELSE NoPush]
    /\ UNCHANGED <<regL, pushCalls, lockOrder, applied, states>>
    /\ UNCHANGED pushingFrame

\* Registry.GetThreshold called by the sink: lock, read, unlock; then
\* the sink and PushPoints return
SinkGetThreshold(g) ==
    /\ pusher[g].pc = "GetThreshold"
    /\ registryLock(g)
    /\ pusher' = [pusher EXCEPT ![g] = NoPush]
    /\ UNCHANGED <<regL, pushCalls, lockOrder, applied, sinkCalls, states, downstream>>
    /\ UNCHANGED pushingFrame

\* no goroutine in PushPoints
InitPusher ==
    /\ regL = 0
    /\ pusher = [g \in Pushers |-> NoPush]
    /\ pushCalls = 0
    /\ lockOrder = <<>>
    /\ applied = <<>>
    /\ sinkCalls = <<>>

(* ------------------------------------------------------------------ *)
(* blackbox.RegisterManager: New and UpdateDynamicTargets.             *)
(* ------------------------------------------------------------------ *)
MaxTargets == 5             \* the longest list of targets followed

\* the URLs url.Parse accepts and the dates time.Parse(RFC3339) accepts
parsedURLs == {"http://a", "tcp://b:80"}

parsedDates == {"2020-01-01T00:00:00Z"}

\* types.Monitor
Monitor(ID, URL, BleemeoAgentID, CreationDate) ==
    [ID |-> ID, URL |-> URL, BleemeoAgentID |-> BleemeoAgentID, CreationDate |-> CreationDate]

\* collectorWithLabels: the configTarget (Name, URL, BleemeoAgentID,
\* ModuleName) and the labels (the service UUID of a monitor, the
\* scraper name)
collectorWithLabels(Name, URL, BleemeoAgentID, ModuleName, serviceUUID) ==
    [collector |-> [Name |-> Name, URL |-> URL, BleemeoAgentID |-> BleemeoAgentID,
                    ModuleName |-> ModuleName],
     labels |-> [serviceUUID |-> serviceUUID, scraper |-> ""]]

\* the host of a URL, for the tcp and icmp probers
hostOf(URL) == IF URL = "tcp://b:80" THEN "b:80" ELSE URL

\* genCollectorFromDynamicTarget: the error, and the collector
genCollectorFromDynamicTarget(monitor) ==
    [err |-> monitor.URL \notin parsedURLs \/ monitor.CreationDate \notin parsedDates,
     collector |-> collectorWithLabels(monitor.URL, hostOf(monitor.URL),
                                       monitor.BleemeoAgentID, "", monitor.ID)]

\* genCollectorFromStaticTarget
genCollectorFromStaticTarget(Name, URL, ModuleName) ==
    collectorWithLabels(Name, URL, "", ModuleName, "")

\* the targets of the configuration file New reads
confTargets ==
    <<genCollectorFromStaticTarget("https://s1", "https://s1", "http_2xx"),
      genCollectorFromStaticTarget("s2", "s2", "dns")>>

\* the loop over monitors from index i: the first error stops it
RECURSIVE dynamicTargets(_, _, _)
dynamicTargets(monitors, i, newTargets) ==
    IF i > Len(monitors) THEN [err |-> FALSE, targets |-> newTargets]
    ELSE LET r == genCollectorFromDynamicTarget(monitors[i])
         IN  IF r.err THEN [err |-> TRUE, targets |-> newTargets]
             ELSE dynamicTargets(monitors, i + 1, Append(newTargets, r.collector))

\* the targets UpdateDynamicTargets keeps as static
staticTargets(list) == SelectSeq(list, LAMBDA t : t.collector.BleemeoAgentID = "")

\* RegisterManager.UpdateDynamicTargets(monitors); regOk is
\* whether updateRegistrations returns no error
UpdateDynamicTargets(monitors, regOk) ==
    LET r == dynamicTargets(monitors, 1, staticTargets(targets))
        newTargets == IF scraperName # ""
                      THEN [idx \in DOMAIN r.targets |->
                               [r.targets[idx] EXCEPT !.labels.scraper = scraperName]]
                      ELSE r.targets
    IN  /\ ~r.err => Len(newTargets) <= MaxTargets
        /\ targets' = IF r.err THEN targets ELSE newTargets
        /\ lastUpdateTargets' = [called |-> TRUE, monitors |-> monitors, before |-> targets,
                                 invalid |-> r.err, err |-> r.err \/ ~regOk]
        /\ UNCHANGED scraperName
        /\ UNCHANGED outsideBlackbox

\* New: the targets of the configuration file, no update yet
New(name) ==
    /\ targets = confTargets
    /\ scraperName = name
    /\ lastUpdateTargets = [called |-> FALSE, monitors |-> <<>>, before |-> <<>>,
                            invalid |-> FALSE, err |-> FALSE]

InitBlackbox == New("")

(***************************************************************************)
(* A task whose Run calls the registry it is registered in                 *)
(* (part_013 line 333 hands a.taskRegistry to the discovery, whose refresh *)
(* calls AddTask and RemoveTask: discovery.go lines 45-49)                 *)
(***************************************************************************)

\* the Run of task n calls RemoveTask and reaches r.l.Lock() (part_002
\* line 404)
TaskCall(n) ==
    /\ ~taskRuns[n].returned
    /\ n \notin inCall
    /\ inCall' = inCall \cup {n}
    /\ UNCHANGED outsideTaskCall

\* r.l is free: nothing runs between r.l.Lock() and r.l.Unlock() (part_002
\* lines 360-361, 369-370, 404-405)
registryFree == regOp.op = "none"

\* the call of task n takes the mutex, removes an id that is not registered
\* (lines 419-423) and returns to Run
TaskCallRemoveTask(n, taskID) ==
    /\ n \in inCall
    /\ registryFree
    /\ taskID \notin DOMAIN taskCancelFuncs
    /\ removeTaskBegin("RemoveTask", taskID, Op("none", taskID, "unknown"))
    /\ inCall' = inCall \ {n}
    /\ UNCHANGED <<regCtxDone, tasks, closeRemoved, outsideTaskAndCall>>

\* task.Run(ctx) returns (lines 388-394): it is not inside a call
TaskRunReturnOutsideCall(n) ==
    /\ n \notin inCall
    /\ TaskRunReturn(n)

InitTaskCall == inCall = {}

(***************************************************************************)
(* threshold.New(state) when the agent starts again (threshold.go lines    *)
(* 51-69), on the state store the previous Registry saved to               *)
(***************************************************************************)

\* the number of restarts explored
MaxRestarts == 1

\* what state.Get(statusCacheKey, &jsonList) leaves in jsonList (part_012
\* lines 134-147): nothing when the key is absent, the saved list when
\* json.Unmarshal succeeds, and what was decoded before the error otherwise
\* (decoded: all of it or nothing)
jsonListOf(data, getErr, decoded) ==
    IF statusCacheKey \notin DOMAIN data THEN EmptyMap
    ELSE IF getErr /\ ~decoded THEN EmptyMap
    ELSE data[statusCacheKey]

\* lines 60-65: the states are copied from jsonList when err != nil
loaded(jsonList, getErr) == IF getErr THEN jsonList ELSE EmptyMap

\* threshold.New(state) once the previous Registry.Run has returned; getErr:
\* state.Get returns an error, possible only when the key is present; the
\* new Registry has no threshold, the default soft period of 300 s, and its
\* Run starts
ThresholdNew(getErr, decoded) ==
    /\ runPc = "done"
    /\ lastNew.count < MaxRestarts
    /\ getErr => statusCacheKey \in DOMAIN stateData
    /\ LET jsonList == jsonListOf(stateData, getErr, decoded)
       IN  /\ states' = loaded(jsonList, getErr)
           /\ lastNew' = [called |-> TRUE, err |-> getErr,
                          key |-> statusCacheKey \in DOMAIN stateData,
                          saved |-> jsonList, states |-> loaded(jsonList, getErr),
                          count |-> lastNew.count + 1]
    /\ thresholds' = EmptyMap
    /\ thresholdsAllItem' = EmptyMap
    /\ defaultSoftPeriod' = 300
    /\ softPeriods' = EmptyMap
    /\ runPc' = "head"
    /\ runCtxDone' = FALSE
    /\ timerFired' = FALSE
    /\ lastSave' = now
    /\ save' = FALSE
    /\ UNCHANGED <<now, pushVars, stateData, stateSets, outsideThresholdNew>>

InitRestart ==
    lastNew = [called |-> FALSE, err |-> FALSE, key |-> FALSE, saved |-> EmptyMap,
               states |-> EmptyMap, count |-> 0]

(***************************************************************************)
(* The forced requests of the Synchronizer: s.forceSync and                *)
(* s.pendingMetricsUpdate (part_006 lines 273-318), and the iteration that *)
(* takes them (lines 388, 483-486)                                         *)
(***************************************************************************)

\* the length s.pendingMetricsUpdate is followed up to
MaxPending == 1

\* Synchronizer.NotifyConfigUpdate (lines 273-284)
NotifyConfigUpdate(immediate) ==
    /\ forceSyncMap' = IF immediate
                       THEN MapSet(MapSet(MapSet(forceSyncMap, "agent", TRUE), "metrics", TRUE),
                                   "containers", TRUE)
                       ELSE MapSet(forceSyncMap, "agent", TRUE)
    /\ fullRequested' = IF immediate
                        THEN fullRequested \cup {"agent", "metrics", "containers"}
                        ELSE fullRequested \cup {"agent"}
    /\ UNCHANGED <<pendingMetricsUpdate, taken, outsideForce>>

\* line 299: s.forceSync["metrics"] = false
updateMetricsForce(force) == MapSet(force, "metrics", FALSE)

\* Synchronizer.UpdateMetrics (lines 287-299)
UpdateMetrics(metricUUID) ==
    /\ Len(pendingMetricsUpdate) + Len(metricUUID) <= MaxPending
    /\ IF Len(metricUUID) = 1 /\ metricUUID[1] = ""
       THEN /\ forceSyncMap' = MapSet(forceSyncMap, "metrics", TRUE)
            /\ pendingMetricsUpdate' = <<>>
            /\ fullRequested' = fullRequested \cup {"metrics"}
       ELSE /\ pendingMetricsUpdate' = pendingMetricsUpdate \o metricUUID
            /\ forceSyncMap' = updateMetricsForce(forceSyncMap)
            /\ UNCHANGED fullRequested
    /\ UNCHANGED <<taken, outsideForce>>

\* Synchronizer.UpdateContainers (lines 302-306)
UpdateContainers ==
    /\ forceSyncMap' = MapSet(forceSyncMap, "containers", FALSE)
    /\ UNCHANGED <<pendingMetricsUpdate, fullRequested, taken, outsideForce>>

\* Synchronizer.popPendingMetricsUpdate (lines 308-321); its caller is not
\* in the source: it may be called at any time
popPendingMetricsUpdate ==
    /\ pendingMetricsUpdate # <<>>
    /\ pendingMetricsUpdate' = <<>>
    /\ UNCHANGED <<forceSyncMap, fullRequested, taken, outsideForce>>

\* runOnce up to checkDuplicated on the requests s.forceSync holds, which
\* syncToPerform deletes (lines 483-486)
runOnceForced(fullSync, factsUpdated, discoveryUpdated) ==
    /\ runOnceWith(syncToPerform(fullSync, factsUpdated, discoveryUpdated, FALSE, forceSyncMap))
    /\ forceSyncMap' = EmptyMap
    /\ taken' = forceSyncMap
    /\ fullRequested' = {}
    /\ UNCHANGED <<pendingMetricsUpdate, outsideSyncAndForce>>

InitForce ==
    /\ forceSyncMap = EmptyMap
    /\ pendingMetricsUpdate = <<>>
    /\ fullRequested = {}
    /\ taken = EmptyMap

(***************************************************************************)
(* bleemeo.Connector: Run and mqttRestarter (bleemeo.go lines 164-327)     *)
(***************************************************************************)

\* the number of MQTT clients created
MaxClients == 3

\* a goroutine of lines 231-243
ClientRun(pc, client, ctx) == [pc |-> pc, client |-> client, ctx |-> ctx]

\* ctx.Done() of the i-th subCtx of mqttRestarter: its cancel was called, or
\* the context of Connector.Run it derives from is cancelled
subCtxDone(i) == subCtxs[i] \/ connCtxDone

\* cancel() of the current subCtx of mqttRestarter
cancelSubCtx == [subCtxs EXCEPT ![restarter.subCtx] = TRUE]

\* Connector.Run starts mqttRestarter (lines 300-310), which reads
\* c.mqttRestart and asks for a first start (lines 175-186)
MqttRestarterStart ==
    /\ connPc = "Run"
    /\ restarter.pc = "not started"
    /\ IF mqttRestart.closed
       THEN /\ restarter' = [restarter EXCEPT !.pc = "returned"]
            /\ connCtxDone' = TRUE
            /\ UNCHANGED <<mqttRestart, subCtxs>>
       ELSE /\ mqttRestart' = [mqttRestart EXCEPT !.len = 1]
            /\ subCtxs' = <<FALSE>>
            /\ restarter' = [pc |-> "range", subCtx |-> 1]
            /\ UNCHANGED connCtxDone
    /\ UNCHANGED <<connPc, mqtt, clientRuns, outsideMqtt>>

\* the loop of line 188 receives a request: cancel(), a new subCtx, and
\* c.mqtt = nil (lines 189-211)
MqttRestarterRange ==
    /\ restarter.pc = "range"
    /\ mqttRestart.len > 0
    /\ mqttRestart' = [mqttRestart EXCEPT !.len = 0]
    /\ subCtxs' = Append(cancelSubCtx, FALSE)
    /\ restarter' = [pc |-> "initMQTT", subCtx |-> Len(subCtxs) + 1]
    /\ mqtt' = 0
    /\ UNCHANGED <<connPc, connCtxDone, clientRuns, outsideMqtt>>

\* initMQTT (lines 109-145, 213-243): on an error the loop is left, else
\* c.mqtt is the new client and the goroutine that calls its Run is started
MqttRestarterInit(err) ==
    /\ restarter.pc = "initMQTT"
    /\ IF err
       THEN /\ restarter' = [restarter EXCEPT !.pc = "wg.Wait"]
            /\ subCtxs' = cancelSubCtx
            /\ UNCHANGED <<mqtt, clientRuns>>
       ELSE /\ Len(clientRuns) < MaxClients
            /\ mqtt' = Len(clientRuns) + 1
            /\ clientRuns' = Append(clientRuns, ClientRun("go", 0, 0))
            /\ restarter' = [restarter EXCEPT !.pc = "range"]
            /\ UNCHANGED subCtxs
    /\ UNCHANGED <<connPc, connCtxDone, mqttRestart, outsideMqtt>>

\* the channel is closed and empty: the loop ends, cancel() (line 246)
MqttRestarterClosed ==
    /\ restarter.pc = "range"
    /\ mqttRestart.len = 0
    /\ mqttRestart.closed
    /\ restarter' = [restarter EXCEPT !.pc = "wg.Wait"]
    /\ subCtxs' = cancelSubCtx
    /\ UNCHANGED <<connPc, connCtxDone, mqttRestart, mqtt, clientRuns, outsideMqtt>>

\* wg.Wait() of line 247 returns, mqttRestarter returns and the deferred
\* cancel of line 305 runs
MqttRestarterReturn ==
    /\ restarter.pc = "wg.Wait"
    /\ \A g \in DOMAIN clientRuns : clientRuns[g].pc = "done"
    /\ restarter' = [restarter EXCEPT !.pc = "returned"]
    /\ connCtxDone' = TRUE
    /\ UNCHANGED <<connPc, mqttRestart, subCtxs, mqtt, clientRuns, outsideMqtt>>

\* goroutine g evaluates c.mqtt.Run(subCtx) (line 234): it reads c.mqtt and
\* subCtx, which mqttRestarter writes without waiting for it, as they are
\* now; a nil c.mqtt is a nil pointer in Run
ClientRunStart(g) ==
    /\ clientRuns[g].pc = "go"
    /\ clientRuns' = [clientRuns EXCEPT ![g] =
            IF mqtt = 0 THEN ClientRun("panic", 0, restarter.subCtx)
            ELSE ClientRun("Run", mqtt, restarter.subCtx)]
    /\ UNCHANGED <<connPc, connCtxDone, mqttRestart, restarter, subCtxs, mqtt, outsideMqtt>>

\* the Run of a client returns once its context is cancelled
ClientRunReturn(g) ==
    /\ clientRuns[g].pc = "Run"
    /\ subCtxDone(clientRuns[g].ctx)
    /\ clientRuns' = [clientRuns EXCEPT ![g].pc = "done"]
    /\ UNCHANGED <<connPc, connCtxDone, mqttRestart, restarter, subCtxs, mqtt, outsideMqtt>>

\* HealthCheck asks for a restart (lines 561-563): the send waits while the
\* channel is full
HealthCheckRestart ==
    /\ ~mqttRestart.closed
    /\ mqttRestart.len = 0
    /\ mqttRestart' = [mqttRestart EXCEPT !.len = 1]
    /\ UNCHANGED <<connPc, connCtxDone, restarter, subCtxs, mqtt, clientRuns, outsideMqtt>>

\* the context given to Connector.Run is cancelled, or the Run of the
\* synchronizer returns and cancels subCtx (lines 267-272)
CancelConnector ==
    /\ ~connCtxDone
    /\ connCtxDone' = TRUE
    /\ UNCHANGED <<connPc, mqttRestart, restarter, subCtxs, mqtt, clientRuns, outsideMqtt>>

\* the second goroutine of Connector.Run leaves its loop and closes
\* c.mqttRestart (lines 283-294)
CloseMqttRestart ==
    /\ connCtxDone
    /\ ~mqttRestart.closed
    /\ mqttRestart' = [mqttRestart EXCEPT !.closed = TRUE]
    /\ UNCHANGED <<connPc, connCtxDone, restarter, subCtxs, mqtt, clientRuns, outsideMqtt>>

\* wg.Wait() of line 319 returns: the goroutines of Connector.Run are over,
\* mqttRestarter too unless it was never started (lines 298-317)
ConnectorRunReturn ==
    /\ connPc = "Run"
    /\ connCtxDone
    /\ mqttRestart.closed
    /\ restarter.pc \in {"not started", "returned"}
    /\ connPc' = "returned"
    /\ UNCHANGED <<connCtxDone, mqttRestart, restarter, subCtxs, mqtt, clientRuns, outsideMqtt>>

\* bleemeo.New (lines 56-73) and the start of Connector.Run
InitMqtt ==
    /\ connPc = "Run"
    /\ connCtxDone = FALSE
    /\ mqttRestart = [len |-> 0, closed |-> FALSE]
    /\ restarter = [pc |-> "not started", subCtx |-> 0]
    /\ subCtxs = <<>>
    /\ mqtt = 0
    /\ clientRuns = <<>>

\* NewRegistry (lines 349-356)
InitTask ==
    /\ regCtxDone = FALSE
    /\ tasks = EmptyMap
    /\ taskCancelFuncs = EmptyMap
    /\ taskRuns = <<>>
    /\ regOp = Op("none", 0, "new")
    /\ closeRemoved = 0

InitThreshold ==
    /\ now = 1
    /\ states = EmptyMap
    /\ thresholds = EmptyMap
    /\ thresholdsAllItem = [n \in Names |-> IF n = "cpu" THEN HighThreshold ELSE LowThreshold]
    /\ defaultSoftPeriod = 300
    /\ softPeriods = EmptyMap
    /\ lastInput = <<>>
    /\ downstream = <<>>
    /\ obs = [k \in Keys |-> NoObs]

\* Registry.Run has set lastSave (line 332) and is at its loop test
InitRun ==
    /\ runPc = "head"
    /\ runCtxDone = FALSE
    /\ timerFired = FALSE
    /\ lastSave = 1
    /\ save = FALSE
    /\ stateData = EmptyMap
    /\ stateSets = 0

Init == InitThreshold /\ InitRun /\ InitCheck /\ InitTask /\ InitDiscovery /\ InitProm /\ InitSync /\ InitSelect /\ InitStore /\ InitNetstat /\ InitLabeled /\ InitGatherers /\ InitProcess /\ InitUpdated /\ InitPusher /\ InitBlackbox /\ InitTaskCall /\ InitRestart /\ InitForce /\ InitMqtt

InitSoft == Init

NextSoft ==
    \/ \E v \in Values : PushPoints(<<RawPoint("cpu", v)>>)
    \/ \E d \in Periods : SetSoftPeriod(d, EmptyMap)
    \/ \E d \in ClockSteps : AdvanceClock(d, MaxClock)
    \/ \E d \in BackSteps : ClockBackward(d)

SpecSoft == InitSoft /\ [][NextSoft]_vars

-----------------------------------------------------------------------------
(* Claims on the soft-status state machine *)

\* C1 as stated: in a run of consecutive raw-critical points of a key whose
\* emitted status was ok, evaluated with one period P > 0 and a clock that
\* does not go backward, the emitted status is critical from the first point
\* at least P after the first point of the run, and ok until then.
C1_OkUntilPeriod ==
    \A k \in Keys :
        obs[k].runValid =>
            obs[k].emitted = IF obs[k].t - obs[k].runStart >= obs[k].period
                             THEN StatusCritical ELSE StatusOk

\* C1 amended: in such a run the emitted status is critical exactly from the
\* first point at least P after the first point of the run; until then it is
\* ok, or warning when a raw-warning streak was already pending at the start
\* of the run (never critical).  The stream [ok, critical, critical, critical]
\* at [T, T, T+150, T+310] with P = 300 emits [ok, ok, ok, critical].
C1_CriticalAfterPeriod ==
    \A k \in Keys :
        /\ obs[k].runValid =>
              /\ obs[k].emitted = StatusCritical
                    <=> obs[k].t - obs[k].runStart >= obs[k].period
              /\ obs[k].emitted # StatusCritical =>
                    IF obs[k].runWarn THEN obs[k].emitted \in {StatusOk, StatusWarning}
                    ELSE obs[k].emitted = StatusOk
        /\ obs[k].ex \in 1..3 => obs[k].emitted = StatusOk
        /\ obs[k].ex = 4 => obs[k].emitted = StatusCritical

\* C1 witness: the example stream was evaluated to its fourth point, which
\* ends a run that reached the period
C1_Witness ==
    \E k \in Keys :
        /\ obs[k].ex = 4
        /\ obs[k].runValid
        /\ obs[k].t - obs[k].runStart >= obs[k].period
        /\ obs[k].emitted = StatusCritical

\* C2 as stated: with no prior state and a period of 300 s the stream
\* [critical, warning] emits [ok, warning].
C2_FreshCriticalIsOk ==
    \A k \in Keys :
        (/\ obs[k].raw = StatusWarning /\ obs[k].period = 300
         /\ obs[k].praw = StatusCritical /\ obs[k].pperiod = 300 /\ obs[k].pfresh)
        => obs[k].pemitted = StatusOk /\ obs[k].emitted = StatusWarning

\* C2 amended: with no prior state and a period of 300 s the stream
\* [critical, warning] emits [critical, warning]: the first point's raw status
\* is adopted as it is, and the raw warning that follows downgrades at once.
C2_FreshCriticalAdopted ==
    \A k \in Keys :
        (/\ obs[k].raw = StatusWarning /\ obs[k].period = 300
         /\ obs[k].praw = StatusCritical /\ obs[k].pperiod = 300 /\ obs[k].pfresh)
        => obs[k].pemitted = StatusCritical /\ obs[k].emitted = StatusWarning

\* C2 witness: [critical, warning] was evaluated for a key without prior state
C2_Witness ==
    \E k \in Keys :
        /\ obs[k].raw = StatusWarning /\ obs[k].period = 300
        /\ obs[k].praw = StatusCritical /\ obs[k].pperiod = 300 /\ obs[k].pfresh
        /\ k \in DOMAIN states /\ states[k].CurrentStatus = StatusWarning

\* C3 as stated: ok => both Since are zero; warning => CriticalSince is zero;
\* critical => WarningSince <= CriticalSince.
C3_SinceByCurrentStatus ==
    \A k \in DOMAIN states :
        /\ states[k].CurrentStatus = StatusOk =>
              states[k].WarningSince = 0 /\ states[k].CriticalSince = 0
        /\ states[k].CurrentStatus = StatusWarning => states[k].CriticalSince = 0
        /\ states[k].CurrentStatus = StatusCritical =>
              states[k].WarningSince <= states[k].CriticalSince

\* C3 amended: the Since fields follow the last raw status, not the current
\* status: after a raw ok both are zero, after a raw warning CriticalSince is
\* zero and WarningSince is set, after a raw critical both are set; whenever
\* CriticalSince is set, and so whenever CurrentStatus is critical,
\* 0 < WarningSince <= CriticalSince.
C3_SinceByRawStatus ==
    \A k \in DOMAIN states :
        /\ obs[k].raw = StatusOk =>
              states[k].WarningSince = 0 /\ states[k].CriticalSince = 0
        /\ obs[k].raw = StatusWarning =>
              states[k].WarningSince # 0 /\ states[k].CriticalSince = 0
        /\ obs[k].raw = StatusCritical =>
              states[k].WarningSince # 0 /\ states[k].CriticalSince # 0
        /\ states[k].CriticalSince # 0 =>
              states[k].WarningSince # 0 /\ states[k].WarningSince <= states[k].CriticalSince
        /\ states[k].CurrentStatus = StatusCritical =>
              states[k].WarningSince <= states[k].CriticalSince

\* C3 witness: a critical state whose warning streak is older than its
\* critical streak, and the clock has gone backward since it was stored
C3_Witness ==
    \E k \in DOMAIN states :
        /\ states[k].CurrentStatus = StatusCritical
        /\ 0 < states[k].WarningSince
        /\ states[k].WarningSince < states[k].CriticalSince
        /\ states[k].LastUpdate > now

-----------------------------------------------------------------------------
(* Registry.Run next to a pusher, minute after minute *)

NextRun ==
    \/ RunLoopTest
    \/ RunSelectDone
    \/ RunSelectTimer
    \/ CancelRun
    \/ \E n \in Names : now <= MaxPushClock /\ PushPoints(<<RawPoint(n, 50)>>)
    \/ AdvanceClock(RunTick, MaxRunClock)

SpecRun == Init /\ [][NextRun]_vars

-----------------------------------------------------------------------------
(* Claims on Registry.Run *)

\* one iteration of the loop of Registry.Run: the select returned and
\* Registry.run was called
RunIteration == runPc = "select" /\ runPc' = "head"

\* C5 as stated: every iteration of the loop (one per minute, and one at the
\* cancellation) serializes the states under the cache key, after removing
\* the entries older than 60 minutes.
C5_SavedEveryMinute ==
    [][RunIteration =>
          /\ stateSets' = stateSets + 1
          /\ stateData'[statusCacheKey] = states'
          /\ \A k \in DOMAIN states' : now - states'[k].LastUpdate <= SaveInterval]_vars

\* C5 amended: every iteration (one per minute, and one when the select
\* receives the cancellation) removes exactly the entries whose LastUpdate is
\* older than 60 minutes; the states are serialized under the cache key only
\* in an iteration that received the cancellation or that runs more than 60
\* minutes after the last save, and always in those; what is serialized is
\* the map after the removal.  Nothing else writes the cache key.
C5_PurgedEveryMinuteSavedHourly ==
    [][/\ RunIteration =>
             /\ \A k \in DOMAIN states :
                   IF now - states[k].LastUpdate > SaveInterval
                   THEN k \notin DOMAIN states'
                   ELSE k \in DOMAIN states' /\ states'[k] = states[k]
             /\ DOMAIN states' \subseteq DOMAIN states
             /\ stateSets' # stateSets => runCtxDone \/ now - lastSave > SaveInterval
             /\ (~timerFired \/ now - lastSave > SaveInterval) => stateSets' = stateSets + 1
             /\ stateSets' # stateSets =>
                   /\ stateSets' = stateSets + 1
                   /\ stateData'[statusCacheKey] = states'
                   /\ lastSave' = now
             /\ stateSets' = stateSets => stateData' = stateData /\ lastSave' = lastSave
       /\ ~RunIteration => stateSets' = stateSets /\ stateData' = stateData]_vars

\* C5 witness: without any cancellation the states were saved once, an hour
\* after the start; one key was removed as too old and another was serialized
C5_Witness ==
    /\ ~runCtxDone
    /\ stateSets = 1
    /\ statusCacheKey \in DOMAIN stateData
    /\ \E k \in Keys : obs[k].raw # "none" /\ k \notin DOMAIN states
    /\ \E k \in Keys : k \in DOMAIN stateData[statusCacheKey]

-----------------------------------------------------------------------------
(* The pusher under changing thresholds *)

NextPush ==
    \/ \E b \in Batches : PushPoints(b)
    \/ \E a \in ItemThresholds, b \in NameThresholds : SetThresholds(a, b)
    \/ \E m \in NamePeriods : SetSoftPeriod(300, m)

SpecPush == Init /\ [][NextPush]_vars

\* q is the point p with its annotation enriched with a status
IsEnriched(p, q) ==
    /\ q.name = p.name /\ q.item = p.item /\ q.value = p.value /\ q.time = p.time
    /\ q.statusOf = p.statusOf
    /\ q.status \in {StatusOk, StatusWarning, StatusCritical}

\* c is the companion <name>_status of the point p enriched as q
IsCompanion(p, q, c) ==
    /\ c.name = p.name \o "_status" /\ c.item = p.item
    /\ c.time = p.time
    /\ c.value = NagiosCode(q.status)
    /\ c.status = q.status
    /\ c.statusOf = p.name

\* out, from index j on, is what the points of in, from index i on, are
\* forwarded as: two points for each i with ev[i], the point itself otherwise
RECURSIVE Forwarded(_, _, _, _, _)
Forwarded(in, i, out, j, ev) ==
    IF i > Len(in) THEN j = Len(out) + 1
    ELSE IF ev[i]
         THEN /\ j + 1 <= Len(out)
              /\ IsEnriched(in[i], out[j])
              /\ IsCompanion(in[i], out[j], out[j + 1])
              /\ Forwarded(in, i + 1, out, j + 2, ev)
         ELSE /\ j <= Len(out)
              /\ out[j] = in[i]
              /\ Forwarded(in, i + 1, out, j + 1, ev)

\* a step in which PushPoints forwarded a batch
Pushed == <<lastInput, downstream>>' # <<lastInput, downstream>>

\* C4 as stated: every point that carries no status is forwarded as two
\* points (itself enriched, then <name>_status with the same timestamp, the
\* Nagios code as value and StatusOf the name), every other point once and
\* unchanged, in the order of the input.
C4_TwoPointsPerUnsetPoint ==
    [][Pushed =>
          Forwarded(lastInput', 1, downstream', 1,
                    [i \in 1..Len(lastInput') |-> ~IsSet(lastInput'[i].status)])]_vars

\* C4 amended: every point that carries no status and for which a non-zero
\* threshold is configured is forwarded as those two points, the last such
\* point of a key carrying the key's stored CurrentStatus; every other point
\* (it carries a status, or no threshold is configured for it) is forwarded
\* once and unchanged; the order of the input is preserved.
C4_TwoPointsPerThresholdPoint ==
    [][Pushed =>
          LET in == lastInput'
              ev == [i \in 1..Len(in) |->
                        /\ ~IsSet(in[i].status)
                        /\ ~IsZero(getThreshold(thresholds, thresholdsAllItem,
                                                MetricNameItem(in[i].name, in[i].item)))]
              pos(i) == i + Cardinality({h \in 1..(i - 1) : ev[h]})
          IN  /\ Forwarded(in, 1, downstream', 1, ev)
              /\ \A i \in 1..Len(in) :
                    (ev[i] /\ \A h \in (i + 1)..Len(in) :
                                 ~(ev[h] /\ in[h].name = in[i].name /\ in[h].item = in[i].item))
                    => downstream'[pos(i)].status =
                          states'[MetricNameItem(in[i].name, in[i].item)].CurrentStatus]_vars

\* C4 witness: of two points without status only the first has a threshold
\* and was forwarded with its companion; the second went through unchanged
C4_Witness ==
    /\ Len(lastInput) = 2 /\ Len(downstream) = 3
    /\ ~IsSet(lastInput[1].status) /\ ~IsSet(lastInput[2].status)
    /\ IsEnriched(lastInput[1], downstream[1])
    /\ IsCompanion(lastInput[1], downstream[1], downstream[2])
    /\ downstream[3] = lastInput[2]

-----------------------------------------------------------------------------
(* The check runner *)

\* what bc.mainCheck and checkTCP return
MainResults == {StatusOk, StatusWarning, StatusCritical}
TcpResults == [Addrs -> {StatusOk, StatusCritical}]

NextCheck ==
    \/ TimerFire
    \/ RunRecvTimer
    \/ RunStopTimer
    \/ RunRecvDone
    \/ RunStopped
    \/ \E main \in MainResults, tcp \in TcpResults : ProbeDone(main, tcp)
    \/ CheckWaitDone
    \/ CheckReport
    \/ CancelCheck
    \/ \E a \in Addrs : \E i \in DOMAIN conns[a] :
        \/ ConnLoopTest(a, i)
        \/ ConnDialOk(a, i)
        \/ ConnDialFail(a, i)
        \/ ConnReadEnd(a, i)
        \/ ConnSleepEnd(a, i)

\* a check created with either value of persistentConnection
InitAnyCheck ==
    /\ InitThreshold /\ InitRun /\ InitTask /\ InitDiscovery /\ InitProm /\ InitSync /\ InitSelect /\ InitStore /\ InitNetstat /\ InitLabeled /\ InitGatherers /\ InitProcess /\ InitUpdated /\ InitPusher /\ InitBlackbox /\ InitTaskCall /\ InitRestart /\ InitForce /\ InitMqtt
    /\ \E flag \in BOOLEAN : newBase(flag)

SpecCheck == InitAnyCheck /\ [][NextCheck]_vars

\* C6: whenever a probe result is reported, the timer is armed for 30 s if the
\* result is not ok and the result reported before it (ok when there is
\* none) is ok, and for 60 s otherwise.
C6_TimerRearm ==
    [][Len(acc') = Len(acc) + 1 =>
        LET status == acc'[Len(acc')].status
            previous == IF acc = <<>> THEN StatusOk ELSE acc[Len(acc)].status
        IN  /\ timer'.state = "armed"
            /\ timer'.d = IF status # StatusOk /\ previous = StatusOk
                          THEN 30 ELSE 60]_vars

\* a not-ok result has been reported after an ok one and the timer is armed
\* for 30 s
C6_Witness ==
    /\ Len(acc) >= 2
    /\ acc[Len(acc) - 1].status = StatusOk
    /\ acc[Len(acc)].status # StatusOk
    /\ timer = Timer("armed", 30)

\* a probe has completed: check is about to report it, or it is reported and
\* no later probe has returned
probeCompleted ==
    \/ checkPc = "report"
    \/ acc # <<>> /\ checkPc \in {"select", "trigger", "probe"}

\* the result of the last completed probe
lastResult == IF checkPc = "report" THEN probe ELSE runResult

C8_NoConnectionWithoutFlag ==
    ~persistentConnection => \A a \in Addrs : conns[a] = <<>>

-----------------------------------------------------------------------------
(* The task registry *)

\* the ids given to RemoveTask: every int
TaskIDs == (0 - IntMax - 1)..IntMax

NextTask ==
    \/ \E closer \in BOOLEAN : AddTask(closer)
    \/ \E taskID \in TaskIDs : RemoveTask(taskID)
    \/ CancelWaitDone
    \/ CloseBegin
    \/ \E k \in DOMAIN taskCancelFuncs : CloseRange(k)
    \/ CloseReturn
    \/ \E n \in DOMAIN taskRuns : TaskRunReturn(n)
    \/ CancelRegistry

SpecTask == Init /\ [][NextTask]_vars

\* task n is registered: an id of r.taskCancelFuncs stands for it
registered(n) == \E id \in DOMAIN taskCancelFuncs : taskCancelFuncs[id] = n

\* C9: the Close of a RunCloser has not been called while the task is
\* registered, and has been called exactly once when it is registered no
\* more, its context being cancelled and its Run having returned; the Close
\* of any other task is never called.
C9_CloseOnceAfterCancel ==
    \A n \in DOMAIN taskRuns :
        IF taskRuns[n].closer /\ ~registered(n)
        THEN taskRuns[n].closes = 1 /\ taskRuns[n].ctxDone /\ taskRuns[n].returned
        ELSE taskRuns[n].closes = 0

\* a RunCloser was removed by RemoveTask, and a second RemoveTask with its id
\* has found the id unknown
C9_Witness ==
    /\ closeRemoved = 0
    /\ regOp = Op("none", regOp.taskID, "unknown")
    /\ \E n \in DOMAIN taskRuns :
        /\ taskRuns[n].closer
        /\ taskRuns[n].id = regOp.taskID
        /\ taskRuns[n].closes = 1

\* C10 as stated: while Registry.Close waits for a task, the context of
\* every registered task is cancelled.
C10_CancelledInParallel ==
    (regOp.op = "Close" /\ regOp.step = "wait") =>
        \A n \in DOMAIN taskRuns : registered(n) => taskRuns[n].ctxDone

\* C10: when Registry.Close returns no task is registered and the Run of
\* every task has returned; and when Close cancels the context of a task,
\* every other task whose context is cancelled has returned.
C10_CloseRemovesInTurn ==
    [][/\ (regOp.op = "Close" /\ regOp'.op = "none") =>
            /\ DOMAIN taskCancelFuncs' = {}
            /\ \A n \in DOMAIN taskRuns' : taskRuns'[n].returned
       /\ (regOp.op = "Close" /\ regCtxDone' = regCtxDone) =>
            \A n \in DOMAIN taskRuns :
                (~taskRuns[n].ctxDone /\ taskRuns'[n].ctxDone) =>
                    \A m \in DOMAIN taskRuns \ {n} :
                        taskRuns[m].ctxDone => taskRuns[m].returned]_vars

\* Registry.Close has returned after it removed two tasks or more
C10_Witness ==
    /\ regOp = Op("none", 0, "closed")
    /\ closeRemoved >= 2
    /\ DOMAIN taskCancelFuncs = {}
    /\ \A n \in DOMAIN taskRuns : taskRuns[n].returned

\* C11: every registered task id is in [1, INT_MAX].
C11_IdInRange ==
    \A id \in DOMAIN taskCancelFuncs : id \in 1..IntMax

-----------------------------------------------------------------------------
(* The discovery *)

\* what the dynamic discoverer can observe of a service: no netstat
\* information, or one of two sets of endpoints
Observed ==
    UNION {{Service(n, TRUE, FALSE, <<>>, "127.0.0.1"),
            Service(n, TRUE, TRUE, <<"tcp:80">>, "10.0.0.1"),
            Service(n, TRUE, TRUE, <<"tcp:8080">>, "10.0.0.2")} : n \in ServiceNames}

\* the answers of the dynamic discoverer: an error, or up to two services
Reports ==
    {DiscoveryError, Report(FALSE, <<>>)}
        \cup {Report(FALSE, <<a>>) : a \in Observed}
        \cup {Report(FALSE, <<a, b>>) : a, b \in Observed}

MaxAges == {0, DiscTick}

NextDiscovery ==
    \/ \E p \in Callers, maxAge \in MaxAges : DiscoveryCall(p, maxAge)
    \/ \E p \in Callers, r \in Reports : DynamicDiscovered(p, r)
    \/ \E p \in Callers : Reconfigure(p)
    \/ \E p \in Callers, ks \in SUBSET ServiceKeys : RemoveIfNonRunning(p, ks)
    \/ AdvanceClock(DiscTick, MaxDiscClock)

SpecDiscovery == Init /\ [][NextDiscovery]_vars

\* the answers of the dynamic discoverer to agentgo's Discovery: an error,
\* or nginx with or without netstat information
OldReports ==
    {DiscoveryError,
     Report(FALSE, <<Service("nginx", TRUE, TRUE, <<"tcp:80">>, "10.0.0.1")>>),
     Report(FALSE, <<Service("nginx", TRUE, FALSE, <<>>, "127.0.0.1")>>)}

\* agentgo's Discovery: d.l is released while updateDiscovery runs
NextOldDiscovery ==
    \/ \E p \in Callers, maxAge \in MaxAges : OldDiscoveryCall(p, maxAge)
    \/ \E p \in Callers, r \in OldReports : OldDynamicDiscovered(p, r)
    \/ \E p \in Callers : OldReconfigure(p)
    \/ AdvanceClock(DiscTick, MaxDiscClock)

SpecOldDiscovery == Init /\ [][NextOldDiscovery]_vars

\* the stored service of key has the endpoints last seen with netstat
keepsNetstat(key) ==
    /\ servicesMap[key].hasNetstatInfo
    /\ servicesMap[key].ListenAddresses = netstatSeen[key].ListenAddresses
    /\ servicesMap[key].IPAddress = netstatSeen[key].IPAddress

reportsKey(r, key) == \E i \in DOMAIN r : keyOf(r[i]) = key

\* a caller has just made the step op
stepOf(op) == lastOp'.op = op /\ disc' # disc

\* C13: a service of the map leaves it only in a RemoveIfNonRunning for its
\* key; and the merge of a refresh keeps every service the discoverer did not
\* report, unchanged but for Active = false.
C13_KeptUntilRemoved ==
    [][/\ \A key \in DOMAIN servicesMap :
            \/ key \in DOMAIN servicesMap'
            \/ lastOp'.op = "remove" /\ key \in lastOp'.removed
       /\ stepOf("update") =>
            \A key \in DOMAIN servicesMap :
                ~reportsKey(lastOp'.report, key) =>
                    servicesMap'[key] = [servicesMap[key] EXCEPT !.Active = FALSE]
       /\ stepOf("refreshed") => servicesMap' = servicesMap]_vars

\* after a successful refresh that did not report it, a service that was
\* observed before is still stored, inactive
C13_Witness ==
    /\ lastOp.op = "refreshed"
    /\ \E key \in DOMAIN lastConfigservicesMap :
        /\ netstatSeen[key].seen /\ ~netstatSeen[key].removed
        /\ ~lastConfigservicesMap[key].Active
        /\ servicesMap[key] = lastConfigservicesMap[key]

\* C14: when the dynamic discoverer returns an error, the step that returns
\* it leaves the service map, the last-update time, the configured map, the
\* configured inputs and checks and the number of configuration calls as they
\* were.
C14_ErrorKeepsSnapshot ==
    [][stepOf("error") =>
        UNCHANGED <<servicesMap, lastDiscoveryUpdate, lastConfigservicesMap,
                    activeInput, activeCheck, configCalls>>]_vars

\* a refresh has failed after a successful one: the services, the inputs and
\* the checks of the successful one are still there
C14_Witness ==
    /\ lastOp.op = "error"
    /\ lastDiscoveryUpdate > 0
    /\ lastDiscoveryUpdate < now
    /\ servicesMap = lastConfigservicesMap
    /\ activeInput # {}
    /\ activeCheck # {}

\* C15: at most one caller is in a refresh, and it holds d.l.
C15_OneRefreshUnderLock ==
    \A p \in Callers : disc[p].pc # "idle" => discLock = p

-----------------------------------------------------------------------------
(* The pushed points of the registry *)

\* a second and two seconds, in tenths of a second
TTLs == {10, 20}

\* the points pushed: one of each label set with the value 1, and the first
\* of them with the value 2
CpuLabels == [n \in {"__name__"} |-> "cpu_used"]
PromPoints ==
    {PromPoint(l, promNow, 1) : l \in LabelSets} \cup {PromPoint(CpuLabels, promNow, 2)}

NextPushed ==
    \/ \E p \in PromPoints, ttl \in TTLs : pushPoint(<<p>>, ttl)
    \/ \E q \in PromPoints : pushPoint(<<PromPoint(CpuLabels, promNow, 1), q>>, 10)
    \/ Collect
    \/ \E d \in {10, 11, pushedPointsCleanupInterval} : PromTick(d)

SpecPushed == Init /\ [][NextPushed]_vars

\* C16: the metrics a Gather returns are, for each key, at most one, built
\* from the point of the last push of that key, and the expiry of that push
\* (its time + its ttl) has not passed.
C16_GatherUnexpired ==
    [][gathered'.n = gathered.n + 1 =>
        /\ \A m \in gathered'.metrics :
            /\ m.key \in DOMAIN pushLog
            /\ m.metric = Metric(pushLog[m.key].point)
            /\ pushLog[m.key].time + pushLog[m.key].ttl >= promNow
        /\ \A m1, m2 \in gathered'.metrics : m1.key = m2.key => m1 = m2]_vars

\* a Gather made 1.1 s after the push of a point with a ttl of 1 s, with no
\* sweep in between, does not return it
C16_Witness ==
    /\ gathered.n > 0
    /\ lastPushedPointsCleanup = promNow
    /\ \E key \in DOMAIN pushLog :
        /\ pushLog[key].ttl = 10
        /\ pushLog[key].time = promNow - 11
        /\ pushLog[key].time = PromEpoch
        /\ \A m \in gathered.metrics : m.key # key
        /\ key \notin DOMAIN pushedPoints

-----------------------------------------------------------------------------
(* The collection loop of the registry *)

Delays == {DefaultDelay, 60}

\* the steps of the goroutine that runs RunCollection, once started
CollStep ==
    \/ CollLoopTest
    \/ CollAligned
    \/ CollRunOnce
    \/ CollSelectTicker
    \/ CollSelectDone
    \/ \E p \in Updaters : CollSelectUpdate(p)

NextCollection ==
    \/ RunCollection
    \/ CollStep
    \/ \E p \in Updaters, d \in Delays : UpdateDelay(p, d)
    \/ CancelCollection

\* a Registry with or without a channel in updateDelayC
InitAnyCollection ==
    /\ InitThreshold /\ InitRun /\ InitCheck /\ InitTask /\ InitDiscovery /\ InitSync /\ InitSelect /\ InitStore /\ InitNetstat /\ InitLabeled /\ InitGatherers /\ InitProcess /\ InitUpdated /\ InitPusher /\ InitBlackbox /\ InitTaskCall /\ InitRestart /\ InitForce /\ InitMqtt
    /\ InitPushed
    /\ \E c \in {"nil", "unbuffered"} : newRegistry(c)

\* the goroutine of RunCollection keeps running, and its select, which
\* chooses at random among the ready cases, does not leave a ready receive
\* from updateDelayC aside for ever
SpecCollection ==
    /\ InitAnyCollection
    /\ [][NextCollection]_vars
    /\ WF_vars(CollStep)
    /\ SF_vars(\E p \in Updaters : CollSelectUpdate(p))

\* C17: an UpdateDelay that changes the delay returns to its caller.
C17_UpdateDelayReturns ==
    \A p \in Updaters : (updaters[p].pc = "send") ~> (updaters[p].pc = "idle")

(* ------------------------------------------------------------------ *)
(* The synchronizer: disablement, steps of an iteration, duplicates.   *)
(* ------------------------------------------------------------------ *)
\* what factsUpdateList fetches: the list of the cache, a changed
\* fqdn, the same fqdn under another id, an address gone and a mac
\* come, another mac; or an error
FetchedLists ==
    {CachedFacts,
     Facts(AgentFact("f3", "other"), AgentFact("f2", "10.0.0.1"), NoFact),
     Facts(AgentFact("f4", "host"), AgentFact("f2", "10.0.0.1"), NoFact),
     Facts(AgentFact("f1", "host"), NoFact, AgentFact("f5", "aa")),
     Facts(AgentFact("f1", "host"), NoFact, AgentFact("f6", "bb"))}

Fetches ==
    {[err |-> FALSE, facts |-> l] : l \in FetchedLists}
    \cup {[err |-> TRUE, facts |-> CachedFacts]}

\* delays of the other users of the connector
ConnectorDelays == {1800}

NextSync ==
    \/ Run
    \/ SyncLoopTest
    \/ WaitDeadline
    \/ \E fullSync \in BOOLEAN, factsUpdated \in BOOLEAN,
          forceSync \in {EmptyMap, [k \in {"metrics"} |-> FALSE]} :
            runOnce(fullSync, factsUpdated, FALSE, forceSync)
    \/ \E fetch \in Fetches : checkDuplicated(fetch)
    \/ DuplicatedCallback
    \/ StepGate
    \/ \E ok \in BOOLEAN : StepMethod(ok)
    \/ RunOnceReturned
    \/ \E d \in ConnectorDelays : ConnectorDisable(DisableAgentTooOld, d)
    \/ CancelSync
    \/ SyncTime

SpecSync == Init /\ [][NextSync]_vars

\* C18: a call of disable without force whose until is not later
\* than the deadline already set leaves the deadline and the reason
\* as they are; and the back-off Run applies after a failed
\* iteration never moves the deadline back, nor changes the reason
\* of a deadline it does not move.
C18_DisableMonotonic ==
    [][/\ (/\ lastDisable'.called
           /\ ~lastDisable'.force
           /\ ~(disabledUntil < lastDisable'.until))
          => (disabledUntil' = disabledUntil /\ disableReason' = disableReason)
       /\ (syncPc = "returned runOnce" /\ syncPc' = "loop")
          => (/\ disabledUntil' >= disabledUntil
              /\ disabledUntil' = disabledUntil => disableReason' = disableReason)]_vars

\* the back-off found a later deadline, set for a duplicated agent,
\* and left it
C18_Witness ==
    /\ lastDisable.called
    /\ ~lastDisable.force
    /\ lastDisable.reason = DisableTooManyErrors
    /\ lastDisable.until < lastDisable.wasUntil
    /\ lastDisable.wasReason = DisableDuplicatedAgent
    /\ disabledUntil = lastDisable.wasUntil
    /\ disableReason = DisableDuplicatedAgent

\* the i-th read of the gate by the current iteration found it closed
gateClosed(i) == gateReads[i].now < gateReads[i].until

\* C19: in an iteration the gate is read before each step of
\* agent, facts, services, containers, metrics in this order; the
\* methods called are those of the selected steps whose read found
\* the gate open, in this order; a read that finds now before
\* disabledUntil is the last of the iteration, no method is called
\* after it and runOnce returns an error.
C19_StepsUnderGate ==
    LET calledStep(name) ==
            /\ name \in DOMAIN syncMethods
            /\ \E i \in 1..Len(gateReads) : gateReads[i].step = name /\ ~gateClosed(i)
            /\ ~(syncPc = "method" /\ name = syncStep[stepIdx])
    IN  /\ Len(gateReads) <= Len(syncStep)
        /\ \A i \in 1..Len(gateReads) : gateReads[i].step = syncStep[i]
        /\ executed = SelectSeq(syncStep, calledStep)
        /\ \A i \in 1..Len(gateReads) :
              gateClosed(i) => /\ i = Len(gateReads)
                               /\ syncPc = "returned runOnce"
                               /\ lastErr # "nil"

\* a method was called, then the gate was found closed before a
\* later selected step, and runOnce returns the error
C19_Witness ==
    /\ syncPc = "returned runOnce"
    /\ executed = <<"agent", "facts">>
    /\ Len(gateReads) = 3
    /\ gateClosed(3)
    /\ "metrics" \in DOMAIN syncMethods
    /\ lastErr = "disabled"

\* C20: when checkDuplicated finds that the value of fqdn,
\* primary_address or primary_mac_address in the fetched list
\* differs from the cached value (both present), the synchronizer
\* is disabled for about 15 minutes with reason DuplicatedAgent,
\* then the callback is called with the same deadline and reason and
\* the iteration calls no step method; when no value differs the
\* check disables nothing.
C20_DisabledIffValueDiffers ==
    [][/\ (syncPc = "checkDuplicated" /\ syncPc' # "checkDuplicated") =>
            IF \E i \in 1..3 : factValueChanged(factsByKey, factsByKey', factNames[i])
            THEN /\ lastDisable'.called
                 /\ disableReason' = DisableDuplicatedAgent
                 /\ disabledUntil' \in (syncNow + 855)..(syncNow + 945)
                 /\ dupUntil' = disabledUntil'
                 /\ syncPc' = "DisableCallback"
            ELSE /\ ~lastDisable'.called
                 /\ disabledUntil' = disabledUntil
                 /\ disableReason' = disableReason
       /\ (syncPc = "DisableCallback" /\ syncPc' # "DisableCallback") =>
            /\ lastCallback' = CallbackCall(DisableDuplicatedAgent, dupUntil)
            /\ syncPc' = "returned runOnce"
            /\ executed' = <<>>
            /\ lastErr' # "nil"]_vars

(* ------------------------------------------------------------------ *)
(* The selection of the steps of an iteration.                         *)
(* ------------------------------------------------------------------ *)
\* what s.forceSync may hold: NotifyConfigUpdate, UpdateMetrics and
\* UpdateContainers write the keys agent, metrics and containers
ForceSyncs ==
    UNION {[K -> BOOLEAN] : K \in SUBSET {"agent", "metrics", "containers"}}

NextSelect ==
    \E fullSync \in BOOLEAN, factsUpdated \in BOOLEAN, discoveryUpdated \in BOOLEAN,
       metricCountChanged \in BOOLEAN, forceSync \in ForceSyncs :
        SyncToPerform(fullSync, factsUpdated, discoveryUpdated, metricCountChanged, forceSync)

SpecSelect == Init /\ [][NextSelect]_vars

\* the steps the rules of syncToPerform select before the forced
\* requests are added
ruleSelected(sel) ==
    (IF sel.fullSync THEN {"agent"} ELSE {})
    \cup (IF sel.fullSync \/ sel.factsUpdated THEN {"facts"} ELSE {})
    \cup (IF sel.fullSync \/ sel.discoveryUpdated THEN {"services", "containers"} ELSE {})

\* C21: syncToPerform selects agent only on a full sync, facts iff
\* full sync or the facts were updated, services and containers iff
\* full sync or the discovery was updated after the last sync,
\* metrics iff services or containers is selected by these rules or
\* the metric count changed or full sync; every forced request is
\* added; a step is full iff this is a full sync or a full sync was
\* forced for it.
C21_StepsSelected ==
    selection.called =>
        LET rules == ruleSelected(selection)
            metrics == IF \/ "services" \in rules
                          \/ "containers" \in rules
                          \/ selection.metricCountChanged
                          \/ selection.fullSync
                       THEN {"metrics"} ELSE {}
        IN  /\ DOMAIN selection.syncMethods
                    = rules \cup metrics \cup DOMAIN selection.forceSync
            /\ \A k \in DOMAIN selection.syncMethods :
                    selection.syncMethods[k]
                        <=> (\/ selection.fullSync
                             \/ (k \in DOMAIN selection.forceSync /\ selection.forceSync[k]))

\* no full sync, the discovery was updated and a full sync of the
\* agent was forced: metrics follows services and containers, and
\* only agent is full
C21_Witness ==
    /\ selection.called
    /\ ~selection.fullSync
    /\ ~selection.factsUpdated
    /\ selection.discoveryUpdated
    /\ ~selection.metricCountChanged
    /\ DOMAIN selection.forceSync = {"agent"}
    /\ selection.forceSync["agent"]
    /\ DOMAIN selection.syncMethods = {"agent", "services", "containers", "metrics"}
    /\ selection.syncMethods["agent"]
    /\ ~selection.syncMethods["metrics"]

(* ------------------------------------------------------------------ *)
(* The back-off of Run over many failed iterations.                    *)
(* ------------------------------------------------------------------ *)
NextBackoff ==
    \/ Run
    \/ \E err \in {"nil", "method"} : Iteration(err)
    \/ BackoffReturned
    \/ SyncTime

SpecBackoff == Init /\ [][NextBackoff]_vars

\* the value Run gives to JitterDelay after the n-th failed
\* iteration in a row, capped as JitterDelay caps it, in thousandths
backoffValue(n) ==
    IF 15000 + PowMilli(n) > 900000 THEN 900000 ELSE 15000 + PowMilli(n)

\* Run is told that runOnce failed, and counts and disables: the
\* delay is the value with a jitter of 10%, and at most maxDelay
backsOff(maxDelay) ==
    LET delay == lastDisable'.until - syncNow
        value == backoffValue(successiveErrors + 1)
    IN  /\ successiveErrors' = successiveErrors + 1
        /\ lastDisable'.called
        /\ ~lastDisable'.force
        /\ lastDisable'.reason = DisableTooManyErrors
        /\ delay * 100000 > value * 90 - 100000
        /\ delay * 100000 < value * 110
        /\ delay <= maxDelay

\* C22 as stated: after the n-th failed iteration in a row the delay
\* is min(900, 15 + 1.55^n) seconds with a jitter of 10% and never
\* exceeds 900 seconds; the counter grows by one on a failed
\* iteration and a successful one resets it.
C22_BackoffAtMost900 ==
    [][(syncPc = "returned runOnce" /\ syncPc' = "loop") =>
            IF lastErr # "nil"
            THEN backsOff(900)
            ELSE successiveErrors' = 0 /\ ~lastDisable'.called]_vars

\* C22 amended: the same, the delay never exceeding 989 seconds,
\* that is 900 seconds and the jitter.
C22_BackoffBelow990 ==
    [][(syncPc = "returned runOnce" /\ syncPc' = "loop") =>
            IF lastErr # "nil"
            THEN backsOff(989)
            ELSE successiveErrors' = 0 /\ ~lastDisable'.called]_vars

\* the 16th failed iteration in a row disables for 989 seconds
C22_Witness ==
    /\ successiveErrors = 16
    /\ lastDisable.called
    /\ lastDisable.reason = DisableTooManyErrors
    /\ lastDisable.until - syncNow = 989

(* ------------------------------------------------------------------ *)
(* The state file and the registration.                                *)
(* ------------------------------------------------------------------ *)
\* what the cache asks of the State
CacheRequests ==
    {<<"Set", "cache", "c1">>, <<"Set", "cache", "c2">>, <<"Delete", "cache", "">>,
     <<"Save", "", "">>}

\* what register asks of the State
RegisterRequests ==
    {<<"Set", "agent_uuid", "">>, <<"Set", "agent_uuid", "uuid">>,
     <<"Set", "password", "generated">>}

NextStore ==
    \/ \E r \in RegisterRequests : StateCall("register", r[1], r[2], r[3])
    \/ \E r \in CacheRequests : StateCall("cache", r[1], r[2], r[3])
    \/ \E c \in StateCallers, ok \in BOOLEAN : saveToOpen(c, ok)
    \/ \E c \in StateCallers, ok \in BOOLEAN : saveToEncode(c, ok)
    \/ \E c \in StateCallers : saveToSync(c)
    \/ \E c \in StateCallers, ok \in BOOLEAN : saveRename(c, ok)
    \/ \E c \in StateCallers : StateReturn(c)
    \/ \E ok \in BOOLEAN : register(ok)
    \/ \E statusCode \in {201, 400} : PostAuth(statusCode)

SpecStore == Init /\ [][NextStore]_vars

\* C23: the registration POST is sent only after a write of the
\* state store made for register has replaced the state file, and
\* once register has ended after a status 201 the state file holds
\* the agent UUID and the generated password.
C23_PostAfterWrite ==
    /\ posted => regSaved
    /\ regPc = "registered" =>
          /\ stFiles.state.complete
          /\ {"agent_uuid", "password"} \subseteq DOMAIN stFiles.state.doc
          /\ stFiles.state.doc["agent_uuid"] = agentID
          /\ stFiles.state.doc["password"] = "generated"

\* C24: the file at the state path always holds a whole document (or
\* is still missing); it changes only by the rename that ends a save,
\* from the previous document to the document of the data the
\* caller holds under the lock, which is what the .tmp file held.
C24_StateFileAtomic ==
    /\ [](stFiles.state.exists => stFiles.state.complete)
    /\ [][stFiles'.state # stFiles.state =>
            \E c \in StateCallers :
                /\ stCallers[c].pc = "Rename"
                /\ stCallers'[c].pc = "return"
                /\ stFiles.tmp = Document(stData)
                /\ stFiles'.state = Document(stData)]_vars

\* between two Sets of register, a save of the cache has replaced
\* the document register had written
C24_Witness ==
    /\ stCallers["cache"].pc = "return"
    /\ ~stCallers["cache"].err
    /\ stFiles.state = Document(stData)
    /\ DOMAIN stData = {"agent_uuid", "cache"}
    /\ stCallers["register"].pc = "idle"
    /\ regPc = "save id"

(* ------------------------------------------------------------------ *)
(* The addresses of a pid.                                             *)
(* ------------------------------------------------------------------ *)
Pids == {10, 20}

\* the addresses netstat and the live connections tell of
ListenAddresses ==
    {listenAddress("tcp", "0.0.0.0", 80), listenAddress("tcp", "127.0.0.1", 80),
     listenAddress("tcp", "10.0.0.1", 80), listenAddress("tcp", "127.0.0.53", 53),
     listenAddress("udp", "0.0.0.0", 53), listenAddress("udp", "127.0.0.53", 53),
     listenAddress("tcp6", "::", 80), listenAddress("tcp6", "::1", 53),
     listenAddress("tcp6", "fe80::1", 80), listenAddress("unix", "/run/x.sock", 0)}

NextNetstat ==
    \/ \E pid \in Pids, a \in ListenAddresses : DecodeLine(pid, a)
    \/ FileDecoded
    \/ \E pid \in Pids, a \in ListenAddresses : LiveConnection(pid, a)

SpecNetstat == Init /\ [][NextNetstat]_vars

\* the tcp and udp candidates of a pid once projected to IPv4, the
\* IPv6 addresses that do not project left out
ipCandidates(pid) ==
    {projected(a) : a \in {c \in candidates[pid] : c.network # "unix"
                                                   /\ ~containsColon(projected(c).address)}}

RECURSIVE sortedLabels(_, _, _)
sortedLabels(S, n, value) ==
    IF n > MaxLabelName THEN <<>>
    ELSE (IF n \in S THEN <<LabelPair(n, value)>> ELSE <<>>) \o sortedLabels(S, n + 1, value)

\* sample labels, and extra labels: sorted by name, names unique
SampleLabels == {sortedLabels(S, 1, "sample") : S \in SUBSET (1..MaxLabelName)}

ExtraLabels == {sortedLabels(S, 1, "extra") : S \in SUBSET (1..MaxLabelName)}

NextLabeled ==
    \E a \in SampleLabels, extraLabels \in ExtraLabels : GatherLabeled(a, extraLabels)

SpecLabeled == Init /\ [][NextLabeled]_vars

\* the names of a list of labels
namesOf(l) == {l[i].name : i \in 1..Len(l)}

\* C27: the labels returned are sorted by name, each name of the
\* sample labels or of the extra labels without the reserved prefix
\* is there once, with the extra value if there is one and the
\* sample value otherwise; an extra label with the reserved prefix
\* is never added.
C27_MergeLabels ==
    labeled.called =>
        LET r == labeled.Label
            extra == {labeled.extraLabels[i] : i \in 1..Len(labeled.extraLabels)}
            added == {l \in extra : ~hasReservedPrefix(l.name)}
        IN  /\ \A i \in 1..(Len(r) - 1) : r[i].name < r[i + 1].name
            /\ namesOf(r) = namesOf(labeled.a) \cup {l.name : l \in added}
            /\ \A i \in 1..Len(r) :
                  IF r[i].name \in {l.name : l \in added}
                  THEN r[i] \in added
                  ELSE \E j \in 1..Len(labeled.a) : labeled.a[j] = r[i]

\* sample labels 1, 2, 4 and extra labels 1, 2, 3: the reserved
\* label 1 keeps the sample value, 2 takes the extra value, 3 is
\* added and 4 is kept
C27_Witness ==
    /\ labeled.called
    /\ namesOf(labeled.a) = {1, 2, 4}
    /\ namesOf(labeled.extraLabels) = {1, 2, 3}
    /\ labeled.Label = <<LabelPair(1, "sample"), LabelPair(2, "extra"),
                         LabelPair(3, "extra"), LabelPair(4, "sample")>>

(* ------------------------------------------------------------------ *)
(* The families returned by Gatherers.GatherWithState.                 *)
(* ------------------------------------------------------------------ *)
\* what gatherer g may return: no family, one family or two; its
\* help text is its own, its metrics are named after it
Gathered(g) ==
    LET fam(n, t) == MetricFamily(n, g, t, <<g>>)
    IN  {[mfs |-> <<>>, err |-> FALSE], [mfs |-> <<>>, err |-> TRUE],
         [mfs |-> <<fam("go_info", "GAUGE")>>, err |-> TRUE],
         [mfs |-> <<fam("go_info", "GAUGE"), fam("up", "COUNTER")>>, err |-> FALSE]}
        \cup {[mfs |-> <<fam(n, t)>>, err |-> FALSE] : n \in {"go_info", "up"}, t \in {"COUNTER", "GAUGE"}}

NextGatherers ==
    \/ GatherersGatherWithState
    \/ \E g \in 1..NumGatherers : \E r \in Gathered(g) : GatherGoroutine(g, r.mfs, r.err)
    \/ GatherersReturn

SpecGatherers == Init /\ [][NextGatherers]_vars

\* the families of mfs with the name n, in the order of mfs
familiesNamed(n) == SelectSeq(mfs, LAMBDA mf : mf.Name = n)

\* the families returned with the name n
returnedNamed(n) == SelectSeq(sortedResult, LAMBDA mf : mf.Name = n)

\* the metrics of a list of families, in order
RECURSIVE metricsOf(_)
metricsOf(list) ==
    IF list = <<>> THEN <<>> ELSE Head(list).Metric \o metricsOf(Tail(list))

typesDiffer(n) ==
    \E i, j \in 1..Len(familiesNamed(n)) : familiesNamed(n)[i].Type # familiesNamed(n)[j].Type

Inventory == [c \in {"c1"} |-> "web"]

\* the submatches of a cgroup file: none (a host process), one
\* known container, two different IDs, one unknown container
CGroupData == {<<>>, <<"c1", "c1">>, <<"c1", "c9">>, <<"c9">>}

\* the cgroup data of the pids
CGroups == {cgroup \in [Pids -> CGroupData] : cgroup[20] \in {<<>>, <<"c9">>}}

\* the ages at t0 of the processes psutil lists
Ages == {10, 2990, 2995, 5000}

PsProcesses ==
    {[pid \in Pids |-> IF ages[pid] = 0 THEN NoProcess
                       ELSE Process(pid, ProcEpoch - ages[pid], "", "")] :
        ages \in [Pids -> Ages \cup {0}]}

\* the processes of the containers: none, or pid 20 in c1
DockerProcesses ==
    {[pid \in Pids |-> NoProcess],
     [pid \in Pids |-> IF pid = 20 THEN Process(20, ProcEpoch - 5000, "c1", "web") ELSE NoProcess]}

NextProcess ==
    \E dockerProcesses \in DockerProcesses, psProcesses \in PsProcesses,
       reachable \in BOOLEAN, cgroup \in CGroups, elapsed \in {0, 5} :
        \/ updateProcesses(dockerProcesses, psProcesses, reachable, Inventory, cgroup, elapsed, FALSE)
        \/ /\ ~reachable /\ elapsed = 0 /\ cgroup = [pid \in Pids |-> <<>>]
           /\ updateProcesses(dockerProcesses, psProcesses, reachable, Inventory, cgroup, elapsed, TRUE)

SpecProcess == Init /\ [][NextProcess]_vars

\* the containerID the cgroup data of pid yields: the one ID all the
\* submatches agree on, "" otherwise
yields(pid) ==
    LET data == lastUpdate.cgroup[pid]
    IN  IF data # <<>> /\ \A i \in 1..Len(data) : data[i] = data[1] THEN data[1] ELSE ""

\* C28: after an update with the runtime reachable, a merged process
\* without containerID is attributed to the container its cgroup
\* data yields if the inventory knows it, is dropped if the ID is
\* not known and the process is younger than 3 s, and is kept as a
\* host process in every other case.
C28_CGroupDecides ==
    (lastUpdate.called /\ ~lastUpdate.err /\ lastUpdate.reachable) =>
        \A pid \in DOMAIN lastUpdate.merged :
            LET p == lastUpdate.merged[pid]
                id == yields(pid)
            IN  (p # NoProcess /\ p.ContainerID = "") =>
                    IF id \in DOMAIN lastUpdate.id2name
                    THEN processes[pid] = Process(pid, p.CreateTime, id, lastUpdate.id2name[id])
                    ELSE IF id # "" /\ lastUpdate.now - p.CreateTime < recentAge
                    THEN processes[pid] = NoProcess
                    ELSE processes[pid] = p

\* one update in which pid 10, 2995 ms old at t0 and in the unknown
\* container c9, is tested at 3000 ms and kept as a host process,
\* while pid 20, 2995 ms old at the test, is dropped
C28_Witness ==
    /\ lastUpdate.called /\ ~lastUpdate.err /\ lastUpdate.reachable
    /\ lastUpdate.cgroup = [pid \in Pids |-> <<"c9">>]
    /\ lastUpdate.now = ProcEpoch + 5
    /\ lastUpdate.merged[10] = Process(10, ProcEpoch - 2995, "", "")
    /\ processes[10] = lastUpdate.merged[10]
    /\ lastUpdate.merged[20] = Process(20, ProcEpoch - 2990, "", "")
    /\ processes[20] = NoProcess

(* ------------------------------------------------------------------ *)
(* The rules of statusState.Update.                                    *)
(* ------------------------------------------------------------------ *)
\* the times of the calls (the clock may go backward), the periods
UpdateTimes == {10, 15, 20, 30}

UpdatePeriods == {0, 10, 15}

NextUpdated ==
    \E newStatus \in {StatusOk, StatusWarning, StatusCritical},
       period \in UpdatePeriods, t \in UpdateTimes :
        StatusUpdate(newStatus, period, t)

SpecUpdated == Init /\ [][NextUpdated]_vars

\* the time for which the raw status has been at least warning
\* (critical = FALSE) or critical (critical = TRUE) at the last call,
\* a Since in the future counting as none
durationAt(critical) ==
    LET since == IF critical THEN updated.prev.CriticalSince ELSE updated.prev.WarningSince
        raised == IF critical THEN updated.newStatus = StatusCritical
                  ELSE updated.newStatus \in {StatusWarning, StatusCritical}
    IN  IF raised /\ since # 0 /\ since <= updated.now THEN updated.now - since ELSE 0

\* the rules of the claim, previous being the status they keep
ruleStatus(previous) ==
    IF updated.period = 0 THEN updated.newStatus
    ELSE IF durationAt(TRUE) >= updated.period THEN StatusCritical
    ELSE IF durationAt(FALSE) >= updated.period THEN StatusWarning
    ELSE IF previous = StatusCritical /\ updated.newStatus = StatusWarning THEN StatusWarning
    ELSE IF updated.newStatus = StatusOk THEN StatusOk
    ELSE previous

\* a raw ok gives ok, and no Since of the state returned is in the
\* future
rawOkAndSince ==
    /\ updated.newStatus = StatusOk => updated.s.CurrentStatus = StatusOk
    /\ updated.s.CriticalSince <= updated.now
    /\ updated.s.WarningSince <= updated.now

\* C30 as stated: the new current status follows the rules in their
\* order, the last one keeping the status of the state Update was
\* called on.
C30_RulesOnPreviousStatus ==
    updated.called =>
        /\ updated.s.CurrentStatus = ruleStatus(updated.prev.CurrentStatus)
        /\ rawOkAndSince

\* C30: the new current status follows the rules in their order,
\* where the previous status is the raw status when the state had
\* none; a raw ok gives ok; a Since in the future is zeroed before
\* the durations are measured.
C30_RulesAfterAdoption ==
    updated.called =>
        /\ updated.s.CurrentStatus =
               ruleStatus(IF updated.prev.CurrentStatus = StatusUnset
                          THEN updated.newStatus ELSE updated.prev.CurrentStatus)
        /\ rawOkAndSince

\* a critical state whose Since are in the future gets a raw warning
\* with a period of 10: the Since are zeroed, the warning lasts 0 and
\* the status goes down to warning at once
C30_Witness ==
    /\ updated.called
    /\ updated.prev.CurrentStatus = StatusCritical
    /\ updated.prev.CriticalSince = 30 /\ updated.prev.WarningSince = 30
    /\ updated.newStatus = StatusWarning /\ updated.period = 10 /\ updated.now = 20
    /\ updated.s = statusState(StatusWarning, 0, 20, 20)

(* ------------------------------------------------------------------ *)
(* The mutex of the threshold registry around PushPoints.              *)
(* ------------------------------------------------------------------ *)
\* the batches of the concurrent callers
PusherBatches ==
    {<<RawPoint("cpu", 95)>>, <<RawPoint("cpu", 15), RawPoint("cpu", 95)>>,
     <<RawPoint("mem", 15), RawPoint("cpu", 95)>>}

NextPusher ==
    \E g \in Pushers :
        \/ \E points \in PusherBatches : PusherPushPoints(g, points)
        \/ PusherLock(g)
        \/ PusherLoop(g)
        \/ PusherUnlock(g)
        \/ \E callback \in BOOLEAN : PusherDownstream(g, callback)
        \/ SinkGetThreshold(g)

SpecPusher == Init /\ [][NextPusher]_vars

\* the place of call n in the order of the locks
RECURSIVE lockRank(_, _)
lockRank(n, i) ==
    IF i > Len(lockOrder) THEN 0
    ELSE IF lockOrder[i] = n THEN i ELSE lockRank(n, i + 1)

\* C29: the states are updated by the holder of the registry mutex
\* only, the downstream PushPoints is called (and the sink calls
\* back) by a goroutine that does not hold it, and the updates of
\* one key are applied in the order the points entered: call by
\* call in the order of the locks, and in the order of the batch
\* within a call.
C29_UpdatesUnderMutexSinkOutside ==
    /\ \A g \in Pushers :
          /\ pusher[g].pc = "loop" => regL = g
          /\ pusher[g].pc \in {"PushPoints", "GetThreshold"} => regL # g
    /\ regL # 0 => pusher[regL].pc = "loop"
    /\ \A i \in 1..Len(sinkCalls) : ~sinkCalls[i].held
    /\ \A i, j \in 1..Len(applied) :
          (i < j /\ applied[i].key = applied[j].key) =>
              \/ lockRank(applied[i].call, 1) < lockRank(applied[j].call, 1)
              \/ /\ applied[i].call = applied[j].call
                 /\ applied[i].index < applied[j].index

\* goroutine 1 waits for the mutex while goroutine 2, which called
\* later and locked first, has updated cpu; the sink of an earlier
\* call was called without the mutex
C29_Witness ==
    /\ pusher[1].pc = "Lock" /\ pusher[1].call = 2
    /\ pusher[2].pc = "loop" /\ pusher[2].call = 3 /\ regL = 2
    /\ Len(applied) >= 2 /\ applied[Len(applied)].call = 3
    /\ Len(sinkCalls) = 1 /\ ~sinkCalls[1].held

(* ------------------------------------------------------------------ *)
(* The timer and the trigger channel of the check loop.                *)
(* ------------------------------------------------------------------ *)
\* the timer is pending: armed, or expired with its value in timer.C
timerPending == timer.state \in {"armed", "fired"}

\* a probe starts when the select of Run received from timer.C or
\* from triggerC, and then no timer is pending; a trigger is received
\* only in a step in which a dial of a connection goroutine failed
probeStep ==
    /\ (checkPc' = "probe" /\ checkPc # "probe") =>
           /\ \/ checkPc = "select" /\ timer.state = "fired"
              \/ checkPc = "trigger"
           /\ timer'.state = "idle"
    /\ (checkPc' = "trigger" /\ checkPc # "trigger") =>
           /\ checkPc = "select"
           /\ \E a \in Addrs : \E i \in DOMAIN conns[a] :
                 /\ conns[a][i].pc = "dial"
                 /\ conns' = [conns EXCEPT ![a][i] = Goroutine("sleep", conns[a][i].ctxDone)]

\* during a probe no timer is pending, and the trigger case finds a
\* pending timer to stop or to drain
probeTimer ==
    /\ checkPc \in {"probe", "wait", "report"} => ~timerPending
    /\ checkPc = "trigger" => timerPending

\* C31 as stated: every probe follows one receive from timer.C or
\* triggerC, a trigger comes from a failed dial only, no timer is
\* pending during a probe, the drain never blocks, and whenever the
\* loop is back at its select one timer is pending.
C31_TimerPendingAfterEachProbe ==
    /\ [](probeTimer /\ (checkPc = "select" => timerPending))
    /\ [][probeStep]_vars

\* C31: the same, one timer being pending at the select unless the
\* context was cancelled.
C31_TimerPendingUnlessCancelled ==
    /\ [](probeTimer /\ ((checkPc = "select" /\ ~checkCtxDone) => timerPending))
    /\ [][probeStep]_vars

\* after a reported probe a trigger was received and the timer has
\* expired before timer.Stop(): its value waits in timer.C for the
\* drain
C31_Witness ==
    /\ checkPc = "trigger"
    /\ timer.state = "fired"
    /\ acc # <<>>
    /\ ~checkCtxDone

(* ------------------------------------------------------------------ *)
(* The end of the check loop and of its connection goroutines.         *)
(* ------------------------------------------------------------------ *)
\* a step of the goroutine of Run: its select takes a ready case, the
\* probe returns, a wait whose goroutines are gone returns
RunSteps ==
    \/ RunRecvTimer
    \/ RunStopTimer
    \/ RunRecvDone
    \/ RunStopped
    \/ \E main \in MainResults, tcp \in TcpResults : ProbeDone(main, tcp)
    \/ CheckWaitDone
    \/ CheckReport

\* a step of a connection goroutine of address a whose context is
\* cancelled: the dial fails, the read loop ends, the sleep ends
CancelledConnSteps(a) ==
    \E i \in DOMAIN conns[a] :
        /\ conns[a][i].ctxDone
        /\ \/ ConnLoopTest(a, i)
           \/ ConnDialFail(a, i)
           \/ ConnReadEnd(a, i)
           \/ ConnSleepEnd(a, i)

\* the goroutines are scheduled
SpecCheckFair ==
    /\ InitAnyCheck
    /\ [][NextCheck]_vars
    /\ WF_vars(RunSteps)
    /\ \A a \in Addrs : WF_vars(CancelledConnSteps(a))

\* C40: once the context is cancelled Run returns, with no
\* connection goroutine left, and the wait of a not-ok probe
\* completes.
C40_RunReturns ==
    /\ checkCtxDone ~> (checkPc = "done" /\ \A a \in Addrs : conns[a] = <<>>)
    /\ (checkPc = "wait") ~> (checkPc # "wait")

\* Run has returned after a cancellation that followed an ok probe,
\* and the connection goroutines that probe had are gone
C40_Witness ==
    /\ checkPc = "done"
    /\ checkCtxDone
    /\ acc # <<>>
    /\ acc[Len(acc)].status = StatusOk
    /\ \A a \in Addrs : conns[a] = <<>>

(* ------------------------------------------------------------------ *)
(* The targets after UpdateDynamicTargets.                             *)
(* ------------------------------------------------------------------ *)
\* the monitors of the calls: two valid ones, one with no agent, one
\* whose URL does not parse, one whose creation date does not parse
Monitors ==
    {Monitor("m1", "http://a", "agent1", "2020-01-01T00:00:00Z"),
     Monitor("m2", "tcp://b:80", "agent1", "2020-01-01T00:00:00Z"),
     Monitor("m3", "http://a", "", "2020-01-01T00:00:00Z"),
     Monitor("m4", "http://[::1", "agent1", "2020-01-01T00:00:00Z"),
     Monitor("m5", "http://a", "agent1", "yesterday")}

MonitorLists == {<<>>} \cup {<<a>> : a \in Monitors} \cup {<<a, b>> : a, b \in Monitors}

NextBlackbox ==
    \E monitors \in MonitorLists, regOk \in BOOLEAN :
        UpdateDynamicTargets(monitors, regOk)

\* a manager created with or without a scraper name
InitAnyBlackbox ==
    /\ InitThreshold /\ InitRun /\ InitCheck /\ InitTask /\ InitDiscovery /\ InitProm /\ InitSync /\ InitSelect /\ InitStore /\ InitNetstat /\ InitLabeled /\ InitGatherers /\ InitProcess /\ InitUpdated /\ InitPusher /\ InitTaskCall /\ InitRestart /\ InitForce /\ InitMqtt
    /\ \E name \in {"", "probe1"} : New(name)

SpecBlackbox == InitAnyBlackbox /\ [][NextBlackbox]_vars

\* the collectors of a list of targets
collectorsOf(list) == [i \in DOMAIN list |-> list[i].collector]

\* C32: after an UpdateDynamicTargets(M) without error the targets
\* are the static targets given to New, in order, followed by one
\* target per monitor of M, in order; after a call with an invalid
\* monitor the targets are the ones before the call.
C32_StaticThenOnePerMonitor ==
    lastUpdateTargets.called =>
        LET M == lastUpdateTargets.monitors
        IN  /\ ~lastUpdateTargets.err =>
                  /\ Len(targets) = Len(confTargets) + Len(M)
                  /\ SubSeq(collectorsOf(targets), 1, Len(confTargets)) = collectorsOf(confTargets)
                  /\ \A i \in 1..Len(M) :
                        /\ targets[Len(confTargets) + i].collector.Name = M[i].URL
                        /\ targets[Len(confTargets) + i].labels.serviceUUID = M[i].ID
            /\ lastUpdateTargets.invalid =>
                  (lastUpdateTargets.err /\ targets = lastUpdateTargets.before)

(* ------------------------------------------------------------------ *)
(* The lock of the connector after disableCallback.                    *)
(* ------------------------------------------------------------------ *)
\* C33: when disableCallback has returned, c.l is released, so that
\* the next operation that locks it completes.
C33_LockReleasedOnReturn ==
    lastCallback.called => connector.l = "free"

(***************************************************************************)
(* Close and RemoveTask while the Run of a task calls the registry         *)
(***************************************************************************)

NextTaskCall ==
    \/ \E closer \in BOOLEAN : AddTask(closer)
    \/ \E taskID \in TaskIDs : RemoveTask(taskID)
    \/ CancelWaitDone
    \/ CloseBegin
    \/ \E k \in DOMAIN taskCancelFuncs : CloseRange(k)
    \/ CloseReturn
    \/ \E n \in DOMAIN taskRuns : TaskRunReturnOutsideCall(n)
    \/ \E n \in DOMAIN taskRuns : TaskCall(n)
    \/ \E n \in DOMAIN taskRuns, taskID \in TaskIDs : TaskCallRemoveTask(n, taskID)

\* the Run of task n returns once its context is cancelled, when it is not
\* inside a call
RunReturnsOnceCancelled(n) ==
    /\ n \in DOMAIN taskRuns
    /\ taskRuns[n].ctxDone
    /\ TaskRunReturnOutsideCall(n)

\* the call of task n gets the mutex
CallGetsMutex(n) ==
    /\ n \in DOMAIN taskRuns
    /\ \E taskID \in TaskIDs : TaskCallRemoveTask(n, taskID)

\* every Run returns once cancelled; a goroutine waiting for the mutex gets
\* it when it is freed again and again (sync.Mutex hands the mutex to a
\* starving waiter); Close and RemoveTask go on when they can
SpecTaskCall ==
    /\ Init
    /\ [][NextTaskCall]_vars
    /\ \A n \in 1..MaxTasks : WF_vars(RunReturnsOnceCancelled(n))
    /\ \A n \in 1..MaxTasks : SF_vars(CallGetsMutex(n))
    /\ WF_vars(CancelWaitDone)
    /\ WF_vars(\E k \in DOMAIN taskCancelFuncs : CloseRange(k))
    /\ WF_vars(CloseReturn)

\* C34: a RemoveTask or a Close that holds the mutex of the registry returns
\* in the end, also when the Run of a task is calling the registry
C34_CloseAndRemoveTaskTerminate ==
    (regOp.op # "none") ~> (regOp.op = "none")

(***************************************************************************)
(* The threshold states across a restart                                   *)
(***************************************************************************)

NextRestart ==
    \/ RunLoopTest
    \/ RunSelectDone
    \/ RunSelectTimer
    \/ CancelRun
    \/ ~lastNew.called /\ now <= MaxPushClock /\ PushPoints(<<RawPoint("cpu", 50)>>)
    \/ AdvanceClock(RunTick, MaxRunClock)
    \/ \E getErr, decoded \in BOOLEAN : ThresholdNew(getErr, decoded)

SpecRestart == Init /\ [][NextRestart]_vars

\* C35: when the store holds a list under the cache key and Get succeeds, the
\* Registry that New returns has exactly the saved states
C35_StatesSurviveRestart ==
    (lastNew.called /\ lastNew.key /\ ~lastNew.err) => lastNew.states = lastNew.saved

(***************************************************************************)
(* The forced requests of the Synchronizer                                 *)
(***************************************************************************)

\* what UpdateMetrics is called with: no uuid known, or one uuid
MetricUUIDs == {<<"">>, <<"u1">>}

\* what factsUpdateList gives: an error, the cached facts, the facts of
\* another agent
ForceFetches ==
    {f \in Fetches : f.err \/ f.facts = CachedFacts
                         \/ f.facts = Facts(AgentFact("f3", "other"), AgentFact("f2", "10.0.0.1"), NoFact)}

\* the other goroutines call the Synchronizer while it waits for its next
\* iteration
Requesting == syncPc = "wait" /\ ~syncCtxDone

NextForce ==
    \/ Run
    \/ SyncLoopTest
    \/ WaitDeadline
    \/ \E fullSync \in BOOLEAN : runOnceForced(fullSync, FALSE, FALSE)
    \/ \E fetch \in ForceFetches : checkDuplicated(fetch)
    \/ DuplicatedCallback
    \/ StepGate
    \/ \E ok \in BOOLEAN : StepMethod(ok)
    \/ RunOnceReturned
    \/ CancelSync
    \/ SyncTime
    \/ Requesting /\ \E immediate \in BOOLEAN : NotifyConfigUpdate(immediate)
    \/ Requesting /\ \E metricUUID \in MetricUUIDs : UpdateMetrics(metricUUID)
    \/ Requesting /\ UpdateContainers
    \/ Requesting /\ popPendingMetricsUpdate

SpecForce == Init /\ [][NextForce]_vars

\* C36: a full sync of metrics or containers requested since the last
\* iteration is still requested as full, and the next syncToPerform selects
\* the step with full = true
C36_FullRequestNotDowngraded ==
    /\ [](\A k \in fullRequested \cap {"metrics", "containers"} :
            k \in DOMAIN forceSyncMap /\ forceSyncMap[k])
    /\ [][(syncPc = "runOnce" /\ syncPc' # "runOnce")
            => \A k \in fullRequested \cap {"metrics", "containers"} :
                  k \in DOMAIN syncMethods' /\ syncMethods'[k]]_vars

\* C37: when runOnce returns, the step of every forced request that its
\* syncToPerform removed from s.forceSync has been executed
C37_ForcedRequestExecuted ==
    syncPc = "returned runOnce" =>
        \A k \in DOMAIN taken : \E i \in DOMAIN executed : executed[i] = k

(***************************************************************************)
(* register and the iteration that calls it again                          *)
(***************************************************************************)

NextRegister ==
    \/ NextStore
    \/ runOnceRegister

SpecRegister == Init /\ [][NextRegister]_vars

\* the document holds the uuid of the agent and its password
holdsPair(doc) ==
    /\ {"agent_uuid", "password"} \subseteq DOMAIN doc
    /\ doc["agent_uuid"] = agentID
    /\ doc["password"] = "generated"

\* the document holds an uuid without a password
halfStored(doc) ==
    /\ "agent_uuid" \in DOMAIN doc
    /\ doc["agent_uuid"] # ""
    /\ "password" \notin DOMAIN doc

\* C38: after register returned an error the agent has no id and no uuid is
\* stored without its password, in the State or in its file; and once
\* register has returned, the agent has an id only if the uuid and the
\* password are held by the State and by the state file
C38_RegisteredOnlyWhenStored ==
    /\ regPc = "failed" =>
          /\ agentID = ""
          /\ ~halfStored(stData)
          /\ stFiles.state.exists => ~halfStored(stFiles.state.doc)
    /\ (regPc = "registered" /\ agentID # "") =>
          /\ holdsPair(stData)
          /\ stFiles.state.exists
          /\ holdsPair(stFiles.state.doc)

(***************************************************************************)
(* The MQTT clients of the connector                                       *)
(***************************************************************************)

NextMqtt ==
    \/ MqttRestarterStart
    \/ MqttRestarterRange
    \/ \E err \in BOOLEAN : MqttRestarterInit(err)
    \/ MqttRestarterClosed
    \/ MqttRestarterReturn
    \/ \E g \in DOMAIN clientRuns : ClientRunStart(g)
    \/ \E g \in DOMAIN clientRuns : ClientRunReturn(g)
    \/ HealthCheckRestart
    \/ CancelConnector
    \/ CloseMqttRestart
    \/ ConnectorRunReturn

SpecMqtt == Init /\ [][NextMqtt]_vars

\* the goroutines inside the Run of a client
running == {g \in DOMAIN clientRuns : clientRuns[g].pc = "Run"}

\* C39: at most one client is inside its Run, and when Connector.Run has
\* returned the Run of every client has returned
C39_OneClientRunning ==
    /\ Cardinality(running) <= 1
    /\ connPc = "returned" => \A g \in DOMAIN clientRuns : clientRuns[g].pc = "done"

====
